---- MODULE Spec2Model ----
(***************************************************************************)
(* Model of the QAAutomation test-executor service: the suite run of       *)
(* TestRunner::execute_test_suite, the per-case run of execute_test_case,  *)
(* the Action Executor (BrowserController::execute_action) and the         *)
(* Assertion Evaluator (TestRunner::execute_test_assertion).               *)
(*                                                                         *)
(* The browser (fantoccini/WebDriver) is the environment: every call made  *)
(* on it is recorded in `trace`, and its answer is a nondeterministic      *)
(* choice.  Strings the code inspects are sequences of one-character       *)
(* strings; Option<T> is a record [some, v].                               *)
(***************************************************************************)
EXTENDS Integers, Sequences, FiniteSets, TLC

\* ------------------------------------------------------------------ bounds

\* Largest number of test cases in a suite.
MaxCases == 2

\* ----------------------------------------------------------------- options

None == [some |-> FALSE, v |-> <<>>]
Some(x) == [some |-> TRUE, v |-> x]

\* Result<T, E>
Ok(x) == [ok |-> TRUE, v |-> x]
Err(e) == [ok |-> FALSE, v |-> e]

\* ----------------------------------------------------------------- strings

\* The characters with the Unicode property White_Space, which is what
\* char::is_whitespace tests.  A character that cannot be written in a
\* string literal is the string of its code point.
WhiteSpace ==
    {" ", "\t", "\n", "\r", "\f", "U+000B", "U+0085", "U+00A0", "U+1680",
     "U+2000", "U+2001", "U+2002", "U+2003", "U+2004", "U+2005", "U+2006",
     "U+2007", "U+2008", "U+2009", "U+200A", "U+2028", "U+2029", "U+202F",
     "U+205F", "U+3000"}

\* char::is_whitespace
IsWhite(c) == c \in WhiteSpace

RECURSIVE TrimStart(_)
TrimStart(s) ==
    IF s = <<>> THEN <<>>
    ELSE IF IsWhite(Head(s)) THEN TrimStart(Tail(s)) ELSE s

RECURSIVE TrimEnd(_)
TrimEnd(s) ==
    IF s = <<>> THEN <<>>
    ELSE IF IsWhite(s[Len(s)]) THEN TrimEnd(SubSeq(s, 1, Len(s) - 1)) ELSE s

\* Mutant of Trim: only the leading white space removed (trim_start).
Trim_StartOnly(s) == TrimStart(s)

\* str::trim
Trim(s) == TrimEnd(TrimStart(s))

\* str::starts_with
StartsWith(s, p) == Len(s) >= Len(p) /\ SubSeq(s, 1, Len(p)) = p

\* Position of the first occurrence of character c in s, 0 when absent.
RECURSIVE IndexFrom(_, _, _)
IndexFrom(s, c, i) ==
    IF i > Len(s) THEN 0
    ELSE IF s[i] = c THEN i ELSE IndexFrom(s, c, i + 1)

\* expected_value.splitn(2, '=').collect(): at most two parts, split at the
\* first '='.
EqSplitAt(s, i) ==
    IF i = 0 THEN <<s>>
    ELSE <<SubSeq(s, 1, i - 1), SubSeq(s, i + 1, Len(s))>>

\* Position of the last occurrence of character c in s, 0 when absent.
LastIndexOf(s, c) ==
    IF \E k \in 1..Len(s) : s[k] = c
    THEN CHOOSE k \in 1..Len(s) :
             s[k] = c /\ \A m \in (k + 1)..Len(s) : s[m] # c
    ELSE 0

\* Mutant of Splitn2: the split at the last '=' (rsplitn).
Splitn2_AtLast(s) == EqSplitAt(s, LastIndexOf(s, "="))

\* Mutant of Splitn2: a value without '=' split into the value and an empty
\* second part.
Splitn2_NeverOne(s) ==
    IF IndexFrom(s, "=", 1) = 0 THEN <<s, <<>>>>
    ELSE EqSplitAt(s, IndexFrom(s, "=", 1))

Splitn2(s) == EqSplitAt(s, IndexFrom(s, "=", 1))

Digits == <<"0", "1", "2", "3", "4", "5", "6", "7", "8", "9">>

DigitValue(c) == IndexFrom(Digits, c, 1) - 1

RECURSIVE DigitsValue(_, _)
DigitsValue(s, acc) ==
    IF s = <<>> THEN acc
    ELSE DigitsValue(Tail(s), acc * 10 + DigitValue(Head(s)))

\* The decimal digits of u64::MAX, 18446744073709551615.
U64MaxDigits ==
    <<"1", "8", "4", "4", "6", "7", "4", "4", "0", "7",
      "3", "7", "0", "9", "5", "5", "1", "6", "1", "5">>

\* A digit string without its leading zeros.
RECURSIVE StripZeros(_)
StripZeros(d) ==
    IF d # <<>> /\ Head(d) = "0" THEN StripZeros(Tail(d)) ELSE d

\* a > b for two digit strings of the same length.
DigitsAbove(a, b) ==
    \E i \in 1..Len(a) :
        /\ DigitValue(a[i]) > DigitValue(b[i])
        /\ \A k \in 1..(i - 1) : a[k] = b[k]

\* The number does not fit in a u64 (PosOverflow).
U64Overflow(d) ==
    \/ Len(StripZeros(d)) > Len(U64MaxDigits)
    \/ /\ Len(StripZeros(d)) = Len(U64MaxDigits)
       /\ DigitsAbove(StripZeros(d), U64MaxDigits)

\* The u64 a digit string denotes: an integer up to nine digits, beyond
\* that (where the integers of the checker end before u64 does) the digits
\* themselves, leading zeros removed.
U64Value(d) ==
    IF Len(StripZeros(d)) <= 9 THEN DigitsValue(d, 0) ELSE StripZeros(d)

\* v.parse::<u64>().ok(): an optional '+', then one or more decimal digits
\* denoting a number that is at most u64::MAX.
ParseDigits(d) ==
    IF d = <<>> \/ \E i \in 1..Len(d) : DigitValue(d[i]) < 0 THEN None
    ELSE IF U64Overflow(d) THEN None
    ELSE Some(U64Value(d))

ParseU64(s) ==
    IF s # <<>> /\ Head(s) = "+" THEN ParseDigits(Tail(s)) ELSE ParseDigits(s)

\* ------------------------------------------------------------ configuration

\* ExecutionConfig::default(): the fields the run reads.
DefaultTimeoutMs == 30000
DefaultWaitAfterActionMs == 500

DefaultConfig ==
    [timeout_ms |-> DefaultTimeoutMs,
     wait_after_action_ms |-> DefaultWaitAfterActionMs,
     screenshot_on_failure |-> TRUE]

\* ------------------------------------------------------------ browser calls

\* One call issued by the service, as recorded in the trace: the operation,
\* the locator of an element lookup, the text argument (URL, keys, script),
\* the duration of a sleep, and whether the call succeeded.
NoLoc == [kind |-> "none", value |-> <<>>]

Call(op, loc, arg, ms) ==
    [op |-> op, loc |-> loc, arg |-> arg, ms |-> ms, ok |-> TRUE]

\* The same call, answered with an error (ok = FALSE) or not.
Answered(call, ok) == [call EXCEPT !.ok = ok]

BrowserCall(op) == Call(op, NoLoc, <<>>, 0)
TextCall(op, arg) == Call(op, NoLoc, arg, 0)
FindCall(loc) == Call("find", loc, <<>>, 0)
SleepCall(ms) == Call("sleep", NoLoc, <<>>, ms)

\* BrowserController::find_element: the prefix dispatch of the Action Executor.
find_element_locator(selector) ==
    IF StartsWith(selector, <<"/", "/">>) THEN [kind |-> "XPath", value |-> selector]
    ELSE IF StartsWith(selector, <<"#">>) THEN [kind |-> "Id", value |-> Tail(selector)]
    ELSE IF StartsWith(selector, <<".">>) THEN [kind |-> "Css", value |-> selector]
    ELSE [kind |-> "Css", value |-> selector]

\* Mutant of find_element_helper_locator: a single '/' taken for XPath.
find_element_helper_locator_SingleSlash(selector) ==
    IF StartsWith(selector, <<"/">>) THEN [kind |-> "XPath", value |-> selector]
    ELSE IF StartsWith(selector, <<"#">>) THEN [kind |-> "Id", value |-> Tail(selector)]
    ELSE [kind |-> "Css", value |-> selector]

\* TestRunner::find_element_helper: the same dispatch in the Assertion Evaluator.
find_element_helper_locator(selector) ==
    IF StartsWith(selector, <<"/", "/">>) THEN [kind |-> "XPath", value |-> selector]
    ELSE IF StartsWith(selector, <<"#">>) THEN [kind |-> "Id", value |-> Tail(selector)]
    ELSE IF StartsWith(selector, <<".">>) THEN [kind |-> "Css", value |-> selector]
    ELSE [kind |-> "Css", value |-> selector]

\* ----------------------------------------------------------- Action Executor

ActionTypes == {"Click", "Type", "Wait", "Navigate", "Screenshot", "Scroll"}

TestAction(ty, target, value, wait) ==
    [action_type |-> ty, target |-> target, value |-> value, wait_after_ms |-> wait]

\* action.target.replace("'", "\\'")
RECURSIVE EscapeQuotes(_)
EscapeQuotes(s) ==
    IF s = <<>> THEN <<>>
    ELSE (IF Head(s) = "'" THEN <<"\\", "'">> ELSE <<Head(s)>>) \o EscapeQuotes(Tail(s))

ScrollScript(action) ==
    IF action.value.some
    THEN IF action.value.v = <<"t", "o", "p">> THEN <<"window.scrollTo(0, 0);">>
         ELSE IF action.value.v = <<"b", "o", "t", "t", "o", "m">>
              THEN <<"window.scrollTo(0, document.body.scrollHeight);">>
              ELSE action.value.v
    ELSE <<"document.querySelector('">> \o EscapeQuotes(action.target)
             \o <<"').scrollIntoView();">>

\* Wait: value parsed as milliseconds, 1000 when absent or unparsable.
WaitTime(action) ==
    IF action.value.some /\ ParseU64(action.value.v).some
    THEN ParseU64(action.value.v).v
    ELSE 1000

\* Mutant of ActionMissingValue: only Type checks its value.
ActionMissingValue_TypeOnly(action) ==
    action.action_type = "Type" /\ ~action.value.some

\* Navigate and Type need a value and fail before any call without one.
ActionMissingValue(action) ==
    action.action_type \in {"Navigate", "Type"} /\ ~action.value.some

\* The calls of one action in the order the code issues them, before the
\* post-action wait.
ActionCalls(action) ==
    CASE action.action_type = "Navigate" -> <<TextCall("goto", action.value.v)>>
      [] action.action_type = "Click" ->
            <<FindCall(find_element_locator(action.target)), BrowserCall("click")>>
      [] action.action_type = "Type" ->
            <<FindCall(find_element_locator(action.target)), BrowserCall("clear"),
              TextCall("send_keys", action.value.v)>>
      [] action.action_type = "Wait" -> <<SleepCall(WaitTime(action))>>
      [] action.action_type = "Screenshot" -> <<BrowserCall("screenshot")>>
      [] action.action_type = "Scroll" -> <<TextCall("execute", ScrollScript(action))>>

\* The calls that can fail: every one but a timed suspension.
CanFail(call) == call.op # "sleep"

\* Mutant of PostActionWait: no wait after an action that already waits or
\* loads a page.
PostActionWait_NotAfterWait(cfg, action) ==
    IF action.action_type \in {"Wait", "Navigate"} THEN <<>>
    ELSE IF action.wait_after_ms.some
    THEN <<SleepCall(action.wait_after_ms.v)>>
    ELSE <<SleepCall(cfg.wait_after_action_ms)>>

\* "Wait after action if specified", else the configured default.
PostActionWait(cfg, action) ==
    IF action.wait_after_ms.some
    THEN <<SleepCall(action.wait_after_ms.v)>>
    ELSE <<SleepCall(cfg.wait_after_action_ms)>>

\* BrowserController::execute_action.  failAt is the browser's answer: the
\* position of the first call that fails, 0 when none does.  The outcome is
\* the Result and the calls issued.
execute_action(cfg, action, failAt) ==
    IF ActionMissingValue(action)
    THEN [res |-> Err(<<action.action_type, "requires a value">>), calls |-> <<>>]
    ELSE IF failAt > 0
    THEN [res |-> Err(<<action.action_type, ActionCalls(action)[failAt].op>>),
          calls |-> SubSeq(ActionCalls(action), 1, failAt - 1)
                        \o <<Answered(ActionCalls(action)[failAt], FALSE)>>]
    ELSE [res |-> Ok(<<action.action_type, "done">>),
          calls |-> ActionCalls(action) \o PostActionWait(cfg, action)]

\* --------------------------------------------------------- Assertion Evaluator

TestTypes ==
    {"ElementExists", "ElementVisible", "ElementText", "ElementAttribute",
     "PageTitle", "FormSubmission", "Navigation", "VisualRegression"}

\* shared::TestCase (name and description carry no behaviour)
TestCase(id, ty, target, expected, actions) ==
    [id |-> id, test_type |-> ty, target_element |-> target,
     expected_value |-> expected, actions |-> actions]

AssertionResult(ty, expected, actual, passed, message) ==
    [assertion_type |-> ty, expected |-> expected, actual |-> actual,
     passed |-> passed, message |-> message]

\* Display of the error of a failed lookup: the context added by
\* find_element_helper.
NotFoundError(target) == <<"Element not found: ">> \o target

BoolText(b) == IF b THEN <<"true">> ELSE <<"false">>

\* The evaluator's lookup of the case's target, found or not.
HelperFind(target, found) ==
    <<Answered(FindCall(find_element_helper_locator(target)), found)>>

\* assert_element_exists; page.found is the answer of the lookup.
assert_element_exists(tc, page) ==
    IF ~tc.target_element.some
    THEN [res |-> Err(<<"ElementExists test requires target_element">>), calls |-> <<>>]
    ELSE LET target == tc.target_element.v IN
         [res |-> Ok(IF page.found
                     THEN AssertionResult("ElementExists",
                              <<"Element '">> \o target \o <<"' should exist">>,
                              <<"Element found">>, TRUE,
                              <<"Element '">> \o target \o <<"' exists on the page">>)
                     ELSE AssertionResult("ElementExists",
                              <<"Element '">> \o target \o <<"' should exist">>,
                              <<"Element not found: ">> \o NotFoundError(target), FALSE,
                              <<"Element '">> \o target \o <<"' does not exist on the page">>)),
          calls |-> HelperFind(target, page.found)]

\* assert_element_visible; page.displayed is the answer of is_displayed():
\* "true", "false" or "error" (unwrap_or(false)).
assert_element_visible(tc, page) ==
    IF ~tc.target_element.some
    THEN [res |-> Err(<<"ElementVisible test requires target_element">>), calls |-> <<>>]
    ELSE LET target == tc.target_element.v
             is_displayed == IF page.displayed = "error" THEN FALSE
                             ELSE page.displayed = "true"
         IN  IF page.found
             THEN [res |-> Ok(AssertionResult("ElementVisible",
                              <<"Element '">> \o target \o <<"' should be visible">>,
                              <<"Element visibility: ">> \o BoolText(is_displayed),
                              is_displayed,
                              IF is_displayed
                              THEN <<"Element '">> \o target \o <<"' is visible">>
                              ELSE <<"Element '">> \o target \o <<"' is not visible">>)),
                   calls |-> HelperFind(target, TRUE)
                                \o <<Answered(BrowserCall("is_displayed"),
                                              page.displayed # "error")>>]
             ELSE [res |-> Ok(AssertionResult("ElementVisible",
                              <<"Element '">> \o target \o <<"' should be visible">>,
                              <<"Element not found: ">> \o NotFoundError(target), FALSE,
                              <<"Element '">> \o target
                                  \o <<"' not found, cannot check visibility">>)),
                   calls |-> HelperFind(target, FALSE)]

\* Mutant of assert_element_text: the failed lookup propagated with `?`.
assert_element_text_LookupPropagates(tc, page) ==
    IF ~tc.target_element.some
    THEN [res |-> Err(<<"ElementText test requires target_element">>), calls |-> <<>>]
    ELSE IF ~tc.expected_value.some
    THEN [res |-> Err(<<"ElementText test requires expected_value">>), calls |-> <<>>]
    ELSE LET target == tc.target_element.v
             expected_text == tc.expected_value.v
             actual_text == IF page.text.ok THEN page.text.v ELSE <<>>
             passed == Trim(actual_text) = Trim(expected_text)
         IN  IF page.found
             THEN [res |-> Ok(AssertionResult("ElementText", expected_text, actual_text,
                              passed,
                              IF passed
                              THEN <<"Element '">> \o target \o <<"' has expected text: '">>
                                       \o expected_text \o <<"'">>
                              ELSE <<"Element '">> \o target
                                       \o <<"' text mismatch. Expected: '">> \o expected_text
                                       \o <<"', Actual: '">> \o actual_text \o <<"'">>)),
                   calls |-> HelperFind(target, TRUE)
                                \o <<Answered(BrowserCall("text"), page.text.ok)>>]
             ELSE [res |-> Err(NotFoundError(target)),
                   calls |-> HelperFind(target, FALSE)]

\* assert_element_text; page.text is the Result of text().
assert_element_text(tc, page) ==
    IF ~tc.target_element.some
    THEN [res |-> Err(<<"ElementText test requires target_element">>), calls |-> <<>>]
    ELSE IF ~tc.expected_value.some
    THEN [res |-> Err(<<"ElementText test requires expected_value">>), calls |-> <<>>]
    ELSE LET target == tc.target_element.v
             expected_text == tc.expected_value.v
             actual_text == IF page.text.ok THEN page.text.v ELSE <<>>
             passed == Trim(actual_text) = Trim(expected_text)
         IN  IF page.found
             THEN [res |-> Ok(AssertionResult("ElementText", expected_text, actual_text,
                              passed,
                              IF passed
                              THEN <<"Element '">> \o target \o <<"' has expected text: '">>
                                       \o expected_text \o <<"'">>
                              ELSE <<"Element '">> \o target
                                       \o <<"' text mismatch. Expected: '">> \o expected_text
                                       \o <<"', Actual: '">> \o actual_text \o <<"'">>)),
                   calls |-> HelperFind(target, TRUE)
                                \o <<Answered(BrowserCall("text"), page.text.ok)>>]
             ELSE [res |-> Ok(AssertionResult("ElementText", expected_text,
                              <<"Element not found: ">> \o NotFoundError(target), FALSE,
                              <<"Element '">> \o target \o <<"' not found, cannot check text">>)),
                   calls |-> HelperFind(target, FALSE)]

\* assert_element_attribute; page.attr is the Result<Option<String>> of attr().
assert_element_attribute(tc, page) ==
    IF ~tc.target_element.some
    THEN [res |-> Err(<<"ElementAttribute test requires target_element">>), calls |-> <<>>]
    ELSE IF ~tc.expected_value.some
    THEN [res |-> Err(<<"ElementAttribute test requires expected_value in format 'attribute=value'">>),
          calls |-> <<>>]
    ELSE IF Len(Splitn2(tc.expected_value.v)) # 2
    THEN [res |-> Err(<<"ElementAttribute expected_value must be in format 'attribute=value'">>),
          calls |-> <<>>]
    ELSE LET target == tc.target_element.v
             expected_value == tc.expected_value.v
             attr_name == Splitn2(expected_value)[1]
             expected_attr_value == Splitn2(expected_value)[2]
             actual_attr_value == IF page.attr.ok THEN page.attr.v ELSE None
             actual_attr_value_str ==
                 IF actual_attr_value.some THEN actual_attr_value.v ELSE <<>>
             passed == actual_attr_value.some /\ actual_attr_value.v = expected_attr_value
         IN  IF page.found
             THEN [res |-> Ok(AssertionResult("ElementAttribute", expected_value,
                              attr_name \o <<"=">> \o actual_attr_value_str, passed,
                              IF passed
                              THEN <<"Element '">> \o target \o <<"' has expected attribute ">>
                                       \o attr_name \o <<"='">> \o expected_attr_value \o <<"'">>
                              ELSE <<"Element '">> \o target
                                       \o <<"' attribute mismatch. Expected: ">>
                                       \o attr_name \o <<"='">> \o expected_attr_value
                                       \o <<"', Actual: ">> \o attr_name \o <<"='">>
                                       \o actual_attr_value_str \o <<"'">>)),
                   calls |-> HelperFind(target, TRUE)
                                \o <<Answered(TextCall("attr", attr_name), page.attr.ok)>>]
             ELSE [res |-> Ok(AssertionResult("ElementAttribute", expected_value,
                              <<"Element not found: ">> \o NotFoundError(target), FALSE,
                              <<"Element '">> \o target
                                  \o <<"' not found, cannot check attribute">>)),
                   calls |-> HelperFind(target, FALSE)]

\* assert_page_title; page.title is the Result of get_page_title().
assert_page_title(tc, page) ==
    IF ~tc.expected_value.some
    THEN [res |-> Err(<<"PageTitle test requires expected_value">>), calls |-> <<>>]
    ELSE LET expected_title == tc.expected_value.v
             passed == Trim(page.title.v) = Trim(expected_title)
         IN  [res |-> Ok(IF page.title.ok
                         THEN AssertionResult("PageTitle", expected_title, page.title.v,
                                  passed,
                                  IF passed
                                  THEN <<"Page title matches expected: '">>
                                           \o expected_title \o <<"'">>
                                  ELSE <<"Page title mismatch. Expected: '">>
                                           \o expected_title \o <<"', Actual: '">>
                                           \o page.title.v \o <<"'">>)
                         ELSE AssertionResult("PageTitle", expected_title,
                                  <<"Failed to get title: ">> \o page.title.v, FALSE,
                                  <<"Could not retrieve page title: ">> \o page.title.v)),
              calls |-> <<Answered(BrowserCall("title"), page.title.ok)>>]

\* Mutant of assert_form_submission: the placeholder reports what its
\* expected text says.
assert_form_submission_Passes(tc, page) ==
    [res |-> Ok(AssertionResult("FormSubmission", <<"Form submission successful">>,
                    <<"Form submission test not fully implemented">>, TRUE,
                    <<"Form submission testing requires custom implementation">>)),
     calls |-> <<>>]

\* assert_form_submission: a placeholder that never passes.
assert_form_submission(tc, page) ==
    [res |-> Ok(AssertionResult("FormSubmission", <<"Form submission successful">>,
                    <<"Form submission test not fully implemented">>, FALSE,
                    <<"Form submission testing requires custom implementation">>)),
     calls |-> <<>>]

\* Mutant of assert_navigation: both sides trimmed before the comparison, as
\* the title and text assertions do.
assert_navigation_Trimmed(tc, page) ==
    IF ~tc.expected_value.some
    THEN [res |-> Err(<<"Navigation test requires expected_value (target URL)">>),
          calls |-> <<>>]
    ELSE LET expected_url == tc.expected_value.v
             passed == Trim(page.url.v) = Trim(expected_url)
         IN  [res |-> Ok(IF page.url.ok
                         THEN AssertionResult("Navigation", expected_url, page.url.v,
                                  passed,
                                  IF passed
                                  THEN <<"Successfully navigated to: '">>
                                           \o expected_url \o <<"'">>
                                  ELSE <<"Navigation mismatch. Expected: '">>
                                           \o expected_url \o <<"', Actual: '">>
                                           \o page.url.v \o <<"'">>)
                         ELSE AssertionResult("Navigation", expected_url,
                                  <<"Failed to get current URL: ">> \o page.url.v, FALSE,
                                  <<"Could not verify navigation: ">> \o page.url.v)),
              calls |-> <<Answered(BrowserCall("current_url"), page.url.ok)>>]

\* assert_navigation; page.url is the Result of get_current_url().
assert_navigation(tc, page) ==
    IF ~tc.expected_value.some
    THEN [res |-> Err(<<"Navigation test requires expected_value (target URL)">>),
          calls |-> <<>>]
    ELSE LET expected_url == tc.expected_value.v
             passed == page.url.v = expected_url
         IN  [res |-> Ok(IF page.url.ok
                         THEN AssertionResult("Navigation", expected_url, page.url.v,
                                  passed,
                                  IF passed
                                  THEN <<"Successfully navigated to: '">>
                                           \o expected_url \o <<"'">>
                                  ELSE <<"Navigation mismatch. Expected: '">>
                                           \o expected_url \o <<"', Actual: '">>
                                           \o page.url.v \o <<"'">>)
                         ELSE AssertionResult("Navigation", expected_url,
                                  <<"Failed to get current URL: ">> \o page.url.v, FALSE,
                                  <<"Could not verify navigation: ">> \o page.url.v)),
              calls |-> <<Answered(BrowserCall("current_url"), page.url.ok)>>]

\* assert_visual_regression: a placeholder that never passes.
assert_visual_regression(tc, page) ==
    [res |-> Ok(AssertionResult("VisualRegression", <<"Visual regression test passed">>,
                    <<"Visual regression testing requires visual engine integration">>,
                    FALSE,
                    <<"Visual regression testing not yet integrated with visual engine">>)),
     calls |-> <<>>]

\* TestRunner::execute_test_assertion: the dispatch over the test type.
execute_test_assertion(tc, page) ==
    CASE tc.test_type = "ElementExists" -> assert_element_exists(tc, page)
      [] tc.test_type = "ElementVisible" -> assert_element_visible(tc, page)
      [] tc.test_type = "ElementText" -> assert_element_text(tc, page)
      [] tc.test_type = "ElementAttribute" -> assert_element_attribute(tc, page)
      [] tc.test_type = "PageTitle" -> assert_page_title(tc, page)
      [] tc.test_type = "FormSubmission" -> assert_form_submission(tc, page)
      [] tc.test_type = "Navigation" -> assert_navigation(tc, page)
      [] tc.test_type = "VisualRegression" -> assert_visual_regression(tc, page)

\* ------------------------------------------------------------- test results

\* TestResult at the start of execute_test_case.
NewTestResult(id, tc, t) ==
    [id |-> id, test_case_id |-> tc.id, status |-> "Running", started_at |-> t,
     completed_at |-> None, duration_ms |-> None, error_message |-> None,
     screenshot_path |-> None, logs |-> << <<"Starting test">> >>,
     assertions |-> <<>>]

\* BrowserController::take_screenshot: the screenshot call, then the base64
\* decoding of what it returned; either may fail.
take_screenshot(callOk, decodeOk) ==
    [res |-> IF ~callOk THEN Err(<<"Failed to capture screenshot">>)
             ELSE IF ~decodeOk THEN Err(<<"Failed to decode base64 screenshot">>)
             ELSE Ok(<<"screenshot data">>),
     calls |-> <<Answered(BrowserCall("screenshot"), callOk)>>]

\* Mutant of FailureScreenshot: the path set whether or not the capture
\* succeeded.
FailureScreenshot_PathAlways(cfg, tr, shotOk) ==
    IF cfg.screenshot_on_failure
    THEN [tr EXCEPT !.screenshot_path =
                        Some([prefix |-> "failure_", id |-> tr.id, ext |-> ".png"]),
                    !.logs = Append(@, <<"Screenshot captured on failure">>)]
    ELSE tr

\* "Take screenshot on failure": the path is set only when the option is on
\* and take_screenshot returned Ok (shotOk).
FailureScreenshot(cfg, tr, shotOk) ==
    IF cfg.screenshot_on_failure /\ shotOk
    THEN [tr EXCEPT !.screenshot_path =
                        Some([prefix |-> "failure_", id |-> tr.id, ext |-> ".png"]),
                    !.logs = Append(@, <<"Screenshot captured on failure">>)]
    ELSE tr

\* The capture is attempted only when the option is on; callOk is the
\* answer of the browser to the screenshot call.
ScreenshotCalls(cfg, callOk) ==
    IF cfg.screenshot_on_failure
    THEN take_screenshot(callOk, TRUE).calls
    ELSE <<>>

\* Mutant of StampCompleted: the duration left unset.
StampCompleted_NoDuration(tr, t) == [tr EXCEPT !.completed_at = Some(t)]

\* completed_at and duration_ms of a test case that ended.
StampCompleted(tr, t) ==
    [tr EXCEPT !.completed_at = Some(t), !.duration_ms = Some(t - tr.started_at)]

\* execute_test_case, Ok arm of an action: one more log line.
ActionSucceeded(tr, label) ==
    [tr EXCEPT !.logs = Append(@, <<"Action completed: ">> \o label)]

\* Mutant of ActionFailed: the case marked Failed, as a failing assertion is.
ActionFailed_AsFailed(tr, e) ==
    [tr EXCEPT !.error_message = Some(<<"Action failed: ">> \o e),
               !.logs = Append(@, <<"Action failed: ">> \o e),
               !.status = "Failed"]

\* execute_test_case, Err arm of an action, up to the screenshot: the
\* message and status Error.
ActionFailed(tr, e) ==
    [tr EXCEPT !.error_message = Some(<<"Action failed: ">> \o e),
               !.logs = Append(@, <<"Action failed: ">> \o e),
               !.status = "Error"]

\* execute_test_case, Ok arm of the assertion.
AssertionOk(tr, assertion, t) ==
    StampCompleted(
        [tr EXCEPT !.assertions = Append(@, assertion),
                   !.status = IF assertion.passed THEN "Passed" ELSE "Failed",
                   !.logs = Append(@, <<"Assertion: ">> \o assertion.message)],
        t)

\* execute_test_case, Err arm of the assertion, up to the screenshot.
AssertionErr(tr, e) ==
    [tr EXCEPT !.error_message = Some(<<"Test assertion failed: ">> \o e),
               !.logs = Append(@, <<"Test assertion failed: ">> \o e),
               !.status = "Error"]

\* --------------------------------------------------------------- execution

\* TestExecution at the start of execute_test_suite.
NewExecution(n) ==
    [status |-> "Running", completed_at |-> None, total_tests |-> n,
     passed_tests |-> 0, failed_tests |-> 0, skipped_tests |-> 0,
     test_results |-> <<>>]

\* Mutants of SessionStartFailed: the status left Running; the error
\* propagated to the caller.
SessionStartFailed_StatusKept(exec) == Ok(exec)

SessionStartFailed_Propagated(exec) == Err(<<"Failed to start browser session">>)

\* Failure to start the session: Failed, returned as Ok.
SessionStartFailed(exec) == Ok([exec EXCEPT !.status = "Failed"])

\* Mutant of NavigationFailed: the failed run stamped as completed.
NavigationFailed_Stamped(exec) ==
    Ok([exec EXCEPT !.status = "Failed", !.completed_at = Some(0)])

\* Failure of the initial navigation: Failed, returned as Ok (after the close).
NavigationFailed(exec) == Ok([exec EXCEPT !.status = "Failed"])

\* Mutants of CountStatus: Error not counted; Error counted as skipped.
CountStatus_ErrorUncounted(exec, status) ==
    CASE status = "Passed" -> [exec EXCEPT !.passed_tests = @ + 1]
      [] status = "Failed" -> [exec EXCEPT !.failed_tests = @ + 1]
      [] status = "Skipped" -> [exec EXCEPT !.skipped_tests = @ + 1]
      [] OTHER -> exec

CountStatus_ErrorAsSkipped(exec, status) ==
    CASE status = "Passed" -> [exec EXCEPT !.passed_tests = @ + 1]
      [] status = "Failed" -> [exec EXCEPT !.failed_tests = @ + 1]
      [] status \in {"Skipped", "Error"} -> [exec EXCEPT !.skipped_tests = @ + 1]
      [] OTHER -> exec

\* Mutant of CountStatus: an Error counted as failed and as skipped.
CountStatus_ErrorTwice(exec, status) ==
    CASE status = "Passed" -> [exec EXCEPT !.passed_tests = @ + 1]
      [] status = "Failed" -> [exec EXCEPT !.failed_tests = @ + 1]
      [] status = "Error" -> [exec EXCEPT !.failed_tests = @ + 1,
                                         !.skipped_tests = @ + 1]
      [] status = "Skipped" -> [exec EXCEPT !.skipped_tests = @ + 1]
      [] OTHER -> exec

\* The match on the case's status in the loop of execute_test_suite.
CountStatus(exec, status) ==
    CASE status = "Passed" -> [exec EXCEPT !.passed_tests = @ + 1]
      [] status \in {"Failed", "Error"} -> [exec EXCEPT !.failed_tests = @ + 1]
      [] status = "Skipped" -> [exec EXCEPT !.skipped_tests = @ + 1]
      [] OTHER -> exec

\* Mutant of RecordResult: the result inserted at the front of the list.
RecordResult_Prepend(exec, tr) ==
    [CountStatus(exec, tr.status) EXCEPT !.test_results = <<tr>> \o @]

\* The loop body after execute_test_case returned: count, then push.
RecordResult(exec, tr) ==
    [CountStatus(exec, tr.status) EXCEPT !.test_results = Append(@, tr)]

\* Mutant of FinalStatus: one failure tolerated.
FinalStatus_OffByOne(exec) == IF exec.failed_tests > 1 THEN "Failed" ELSE "Completed"

\* "Update execution status"
FinalStatus(exec) == IF exec.failed_tests > 0 THEN "Failed" ELSE "Completed"

\* The end of execute_test_suite: completion stamped, final status, Ok.
Completed(exec, t) ==
    Ok([exec EXCEPT !.completed_at = Some(t), !.status = FinalStatus(exec)])

\* BrowserController::new / TestRunner::new: the WebDriver status probe only
\* logs; construction succeeds either way.
TestRunner_new(cfg, webdriverUp) == Ok(cfg)

\* TestExecutor::execute_test_suite: `?` on the runner's result.
ExecutorResult(runnerResult) ==
    IF runnerResult.ok THEN Ok(runnerResult.v)
    ELSE Err(<<"Failed to execute test suite">>)

\* wait_for_page_load: the interval between two polls.
PollIntervalMs == 100

\* Mutant of MaxAttempts: the division rounded up.
MaxAttempts_RoundedUp(cfg) == (cfg.timeout_ms + PollIntervalMs - 1) \div PollIntervalMs

\* wait_for_page_load: max_attempts = timeout_ms / 100
MaxAttempts(cfg) == cfg.timeout_ms \div PollIntervalMs

\* ---------------------------------------------------------- visual engine

\* The f32 ratio of two small integers, kept as the ratio: a pixel has at
\* most eight neighbours, and no ratio of counts up to eight is close enough
\* to 0.7 for the rounding of the division to change the comparison.
Rat(n, d) == [num |-> n, den |-> d]

\* a < b on such ratios (denominators are positive)
RatLess(a, b) == a.num * b.den < b.num * a.den

\* ImageComparator::new()
DefaultPixelThreshold == 10

DefaultComparator ==
    [pixel_threshold |-> DefaultPixelThreshold, ignore_antialiasing |-> TRUE]

\* ImageComparator::with_config
with_config(pixel_threshold, ignore_antialiasing) ==
    [pixel_threshold |-> pixel_threshold, ignore_antialiasing |-> ignore_antialiasing]

\* A decoded image: its dimensions and its RGB pixels by coordinate <<x, y>>.
Coords(w, h) == (0..(w - 1)) \X (0..(h - 1))

Image(w, h, px) == [width |-> w, height |-> h, px |-> px]

\* DynamicImage::crop_imm: the w x h region whose top-left corner is (x, y).
crop_imm(img, x, y, w, h) ==
    Image(w, h, [c \in Coords(w, h) |-> img.px[<<c[1] + x, c[2] + y>>]])

Min(a, b) == IF a <= b THEN a ELSE b

\* Mutant of normalize_dimensions: the current image cropped to its
\* bottom-right region instead of its top-left one.
normalize_dimensions_BottomRight(img1, img2) ==
    IF img1.width = img2.width /\ img1.height = img2.height
    THEN <<img1, img2>>
    ELSE LET target_width == Min(img1.width, img2.width)
             target_height == Min(img1.height, img2.height)
         IN  <<crop_imm(img1, 0, 0, target_width, target_height),
               crop_imm(img2, img2.width - target_width,
                        img2.height - target_height, target_width, target_height)>>

\* ImageComparator::normalize_dimensions
normalize_dimensions(img1, img2) ==
    IF img1.width = img2.width /\ img1.height = img2.height
    THEN <<img1, img2>>
    ELSE LET target_width == Min(img1.width, img2.width)
             target_height == Min(img1.height, img2.height)
         IN  <<crop_imm(img1, 0, 0, target_width, target_height),
               crop_imm(img2, 0, 0, target_width, target_height)>>

Abs(n) == IF n < 0 THEN 0 - n ELSE n

\* Mutant of is_pixel_different: a channel difference equal to the
\* threshold taken for a difference.
is_pixel_different_AtLeast(cmp, pixel1, pixel2) ==
    \E i \in 1..3 : Abs(pixel1[i] - pixel2[i]) >= cmp.pixel_threshold

\* ImageComparator::is_pixel_different
is_pixel_different(cmp, pixel1, pixel2) ==
    \E i \in 1..3 : Abs(pixel1[i] - pixel2[i]) > cmp.pixel_threshold

\* Mutant of Neighbours: the centre pixel counted among its neighbours.
Neighbours_WithCentre(x, y, width, height) ==
    { <<x + dx, y + dy>> : dx \in -1..1, dy \in -1..1 }
        \cap Coords(width, height)

\* The in-bounds neighbours of (x, y) in the 3x3 neighbourhood, centre
\* excluded.
Neighbours(x, y, width, height) ==
    { <<x + dx, y + dy>> : dx \in -1..1, dy \in -1..1 }
        \cap (Coords(width, height) \ {<<x, y>>})

\* Mutant of calculate_antialiasing_score: the differing neighbours counted
\* in place of the similar ones.
calculate_antialiasing_score_CountsDifferent(cmp, x, y, img1, img2) ==
    LET around == Neighbours(x, y, img1.width, img1.height)
        differing ==
            Cardinality({ c \in around :
                            is_pixel_different(cmp, img1.px[c], img2.px[c]) })
    IN  IF around = {} THEN Rat(0, 1) ELSE Rat(differing, Cardinality(around))

\* ImageComparator::calculate_antialiasing_score: similar_neighbors over
\* total_neighbors, 0.0 without neighbours.
calculate_antialiasing_score(cmp, x, y, img1, img2) ==
    LET around == Neighbours(x, y, img1.width, img1.height)
        similar_neighbors ==
            Cardinality({ c \in around :
                            ~is_pixel_different(cmp, img1.px[c], img2.px[c]) })
        total_neighbors == Cardinality(around)
    IN  IF total_neighbors = 0 THEN Rat(0, 1)
        ELSE Rat(similar_neighbors, total_neighbors)

\* The score above which a difference is taken for antialiasing: 0.7
AntialiasingScore == Rat(7, 10)

\* ImageComparator::is_pixel_significantly_different
is_pixel_significantly_different(cmp, pixel1, pixel2, x, y, img1, img2) ==
    IF ~is_pixel_different(cmp, pixel1, pixel2) THEN FALSE
    ELSE IF cmp.ignore_antialiasing
            /\ RatLess(AntialiasingScore,
                       calculate_antialiasing_score(cmp, x, y, img1, img2))
    THEN FALSE
    ELSE TRUE

\* (orig as f32 * 0.7) as u8
Dimmed(v) == (v * 7) \div 10

Red == <<255, 0, 0>>

\* compare_images, the pixel at (x, y)
IsDifferentAt(cmp, img1, img2, x, y) ==
    IF cmp.ignore_antialiasing
    THEN is_pixel_significantly_different(cmp, img1.px[<<x, y>>], img2.px[<<x, y>>],
                                          x, y, img1, img2)
    ELSE is_pixel_different(cmp, img1.px[<<x, y>>], img2.px[<<x, y>>])

\* The mask pixel of a pixel that is not different: the original, dimmed.
DimmedPixel(orig) == <<Dimmed(orig[1]), Dimmed(orig[2]), Dimmed(orig[3])>>

\* Mutant of ClassifyPixel: the antialiasing check reads the mask written so
\* far, over the neighbours already classified, instead of the two images.
ClassifyPixel_ReadsMask(cmp, img1, img2, x, y, acc) ==
    LET seen == Neighbours(x, y, img1.width, img1.height) \cap DOMAIN acc.diff_mask
        similar == { c \in seen : acc.diff_mask[c] # Red }
        is_different ==
            /\ is_pixel_different(cmp, img1.px[<<x, y>>], img2.px[<<x, y>>])
            /\ \/ ~cmp.ignore_antialiasing
               \/ seen = {}
               \/ 10 * Cardinality(similar) <= 7 * Cardinality(seen)
    IN  IF is_different
        THEN [different_pixels |-> acc.different_pixels + 1,
              diff_mask |-> acc.diff_mask @@ (<<x, y>> :> Red)]
        ELSE [different_pixels |-> acc.different_pixels,
              diff_mask |-> acc.diff_mask
                                @@ (<<x, y>> :> DimmedPixel(img1.px[<<x, y>>]))]

\* compare_images, the body of the loops: the pixel at (x, y) is classified,
\* counted when different and written to the mask.
ClassifyPixel(cmp, img1, img2, x, y, acc) ==
    IF IsDifferentAt(cmp, img1, img2, x, y)
    THEN [different_pixels |-> acc.different_pixels + 1,
          diff_mask |-> acc.diff_mask @@ (<<x, y>> :> Red)]
    ELSE [different_pixels |-> acc.different_pixels,
          diff_mask |-> acc.diff_mask
                            @@ (<<x, y>> :> DimmedPixel(img1.px[<<x, y>>]))]

\* compare_images, the loops `for y in 0..height { for x in 0..width`: the
\* n-th pixel in row-major order and those after it.
RECURSIVE ComparePixelsFrom(_, _, _, _, _)
ComparePixelsFrom(cmp, img1, img2, n, acc) ==
    IF n >= img1.width * img1.height THEN acc
    ELSE ComparePixelsFrom(cmp, img1, img2, n + 1,
             ClassifyPixel(cmp, img1, img2, n % img1.width, n \div img1.width, acc))

\* The ComparisonResult before the first pixel.
NoPixels == [different_pixels |-> 0, diff_mask |-> <<>>]

\* ImageComparator::compare_images: the ComparisonResult
compare_images(cmp, img1, img2) ==
    LET done == ComparePixelsFrom(cmp, img1, img2, 0, NoPixels)
    IN  [different_pixels |-> done.different_pixels,
         diff_mask |-> Image(img1.width, img1.height, done.diff_mask)]

\* ImageComparator::create_difference_image: baseline, current and mask
\* side by side.
create_difference_image(baseline, current, diff_mask) ==
    Image(baseline.width * 3, baseline.height,
          [c \in Coords(baseline.width * 3, baseline.height) |->
              IF c[1] < baseline.width THEN baseline.px[c]
              ELSE IF c[1] < baseline.width * 2
              THEN current.px[<<c[1] - baseline.width, c[2]>>]
              ELSE diff_mask.px[<<c[1] - baseline.width * 2, c[2]>>]])

\* An f64 is zero, or sign * 1.f * 2^exp with a fraction f of 52 binary
\* digits, held as four groups of 13 digits: frac = <<f1, f2, f3, f4>>, each
\* below 2^13. (Infinities, NaN and subnormal numbers do not occur.)
Group == 2 ^ 13

F64Zero == [sign |-> 0, exp |-> 0, frac |-> <<0, 0, 0, 0>>]

\* frac + 1 in the last place; the first element of the result is the carry
\* out of the first group.
RECURSIVE Incremented(_)
Incremented(frac) ==
    IF frac = <<>> THEN <<1>>
    ELSE IF frac[Len(frac)] + 1 < Group
    THEN <<0>> \o SubSeq(frac, 1, Len(frac) - 1) \o <<frac[Len(frac)] + 1>>
    ELSE LET rest == Incremented(SubSeq(frac, 1, Len(frac) - 1))
         IN  rest \o <<0>>

\* Rounding to nearest, ties to even, of sign * 1.frac.. * 2^exp, where
\* guard is the binary digit after the 52 of frac and sticky tells whether a
\* nonzero digit follows it.
F64Round(sign, exp, frac, guard, sticky) ==
    LET up == guard = 1 /\ (sticky \/ frac[4] % 2 = 1)
        rounded == IF up THEN Incremented(frac) ELSE <<0>> \o frac
    IN  [sign |-> sign, exp |-> exp + rounded[1], frac |-> SubSeq(rounded, 2, 5)]

\* The next k groups of binary digits of r / d, r < d, and the remainder
\* after them.
RECURSIVE QuotientGroups(_, _, _)
QuotientGroups(r, d, k) ==
    IF k = 0 THEN [groups |-> <<>>, rem |-> r]
    ELSE LET rest == QuotientGroups((r * Group) % d, d, k - 1)
         IN  [groups |-> <<(r * Group) \div d>> \o rest.groups,
              rem |-> rest.rem]

\* floor(log2(a / b)) of two positive integers.
RECURSIVE Log2Ratio(_, _)
Log2Ratio(a, b) ==
    IF a >= 2 * b THEN Log2Ratio(a, 2 * b) + 1
    ELSE IF a < b THEN Log2Ratio(2 * a, b) - 1
    ELSE 0

\* `a as f64 / b as f64` of two small integers, b > 0 (each converts to f64
\* exactly): the quotient rounded to nearest.
F64Ratio(a, b) ==
    IF a = 0 THEN F64Zero
    ELSE LET e == Log2Ratio(Abs(a), b)
             n == IF e < 0 THEN Abs(a) * 2 ^ (0 - e) ELSE Abs(a)
             d == IF e < 0 THEN b ELSE b * 2 ^ e
             q == QuotientGroups(n - d, d, 4)
         IN  F64Round(IF a < 0 THEN 0 - 1 ELSE 1, e, q.groups,
                      (2 * q.rem) \div d, (2 * q.rem) % d # 0)

\* groups * k + carry, group by group from the last; the first element of
\* the result is the carry out of the first group.
RECURSIVE TimesSmall(_, _, _)
TimesSmall(groups, k, carry) ==
    IF groups = <<>> THEN <<carry>>
    ELSE LET v == groups[Len(groups)] * k + carry
             rest == TimesSmall(SubSeq(groups, 1, Len(groups) - 1), k, v \div Group)
         IN  rest \o <<v % Group>>

\* floor(log2(n)) of a positive integer.
RECURSIVE Log2(_)
Log2(n) == IF n < 2 THEN 0 ELSE Log2(n \div 2) + 1

\* x * k on f64, k an integer from 1 to 2^12 taken as the f64 of that value
\* (100.0): the exact product rounded to nearest.
F64Times(x, k) ==
    IF x.sign = 0 THEN F64Zero
    ELSE LET p == TimesSmall(<<1>> \o x.frac, k, 0)
             whole == p[1] * Group + p[2]
             s == Log2(whole)
             low == 2 ^ s
             high == Group \div low
             dropped == p[6] % low
         IN  F64Round(x.sign, x.exp + s,
                      [i \in 1..4 |->
                          (IF i = 1 THEN whole % low ELSE p[i + 1] % low) * high
                          + p[i + 2] \div low],
                      IF s = 0 THEN 0 ELSE dropped \div (low \div 2),
                      s > 0 /\ dropped % (low \div 2) # 0)

\* x < y and x <= y on f64
FracLess(a, b) ==
    \E i \in 1..4 : a[i] < b[i] /\ \A j \in 1..(i - 1) : a[j] = b[j]

MagnitudeLess(x, y) ==
    x.exp < y.exp \/ (x.exp = y.exp /\ FracLess(x.frac, y.frac))

F64Less(x, y) ==
    IF x.sign # y.sign THEN x.sign < y.sign
    ELSE IF x.sign = 0 THEN FALSE
    ELSE IF x.sign = 1 THEN MagnitudeLess(x, y)
    ELSE MagnitudeLess(y, x)

F64Leq(x, y) == ~F64Less(y, x)

\* total_pixels = (width * height) as u64 (the images of the model are far
\* below the u32 range)
TotalPixels(img) == img.width * img.height

\* difference_percentage =
\*     (different_pixels as f64 / total_pixels as f64) * 100.0
DifferencePercentage(different_pixels, total_pixels) ==
    F64Times(F64Ratio(different_pixels, total_pixels), 100)

\* Mutant of WithinThreshold: the comparison made strict.
WithinThreshold_Strict(difference_percentage, difference_threshold) ==
    F64Less(difference_percentage, difference_threshold)

\* passed = difference_percentage <= difference_threshold
WithinThreshold(difference_percentage, difference_threshold) ==
    F64Leq(difference_percentage, difference_threshold)

\* Mutant of NeedsDiffImage: a single differing pixel gets no difference
\* image.
NeedsDiffImage_MoreThanOne(comparison_result) == comparison_result.different_pixels > 1

\* Mutant of NeedsDiffImage: the difference image created for every
\* comparison.
NeedsDiffImage_Always(comparison_result) == comparison_result.different_pixels >= 0

\* "Create difference image if there are differences"
NeedsDiffImage(comparison_result) == comparison_result.different_pixels > 0

\* A string is the sequence of its characters; a part of a key that is
\* formatted as a whole and holds no character of a screenshot id (a
\* directory, a date, the dimensions, the extension) is one element.

\* StorageManager::new: the bucket is MINIO_BUCKET, or this name.
DefaultBucket == "qa-automation-artifacts"

\* str::contains
Contains(s, t) ==
    \E i \in 0..(Len(s) - Len(t)) : SubSeq(s, i + 1, i + Len(t)) = t

\* The letters and digits of the model.
Alphanumeric == {"a", "b", "c", "x", "1", "2", "3"}

IsScheme(c) == c \in {"https://", "http://"}

IsKept(c) == c \in Alphanumeric \cup {"_", "-", "."}

\* StorageManager::sanitize_url: the scheme removed, "/", "?", "&" and "="
\* replaced by "_", and of the rest only letters, digits, "_", "-" and "."
\* kept.
sanitize_url(url) ==
    LET IsNoScheme(c) == ~IsScheme(c)
        rest == SelectSeq(url, IsNoScheme)
        replaced == [i \in 1..Len(rest) |->
                        IF rest[i] \in {"/", "?", "&", "="} THEN "_" ELSE rest[i]]
    IN  SelectSeq(replaced, IsKept)

\* StorageManager::store_screenshot: the key of the object,
\* screenshots/<date>/<sanitized url>/<width>x<height>/<id>.png
ScreenshotKey(date, url, dimensions, screenshot_id) ==
    <<"screenshots/", date, "/">> \o sanitize_url(url)
        \o <<"/", dimensions, "/">> \o screenshot_id \o <<".png">>

\* The characters of keys in the order of their codes.
CharOrder == <<"-", ".", "/", "1", "2", "3", "_", "a", "b", "c", "x">>

CharRank(c) == CHOOSE i \in 1..Len(CharOrder) : CharOrder[i] = c

\* a comes before b in a listing of the bucket, which is in the order of the
\* codes of the characters (keys of one day and of the same dimensions
\* differ first at a character).
KeyBefore(a, b) ==
    \/ Len(a) < Len(b) /\ SubSeq(b, 1, Len(a)) = a
    \/ \E i \in 1..Min(Len(a), Len(b)) :
          /\ SubSeq(a, 1, i - 1) = SubSeq(b, 1, i - 1)
          /\ a[i] # b[i]
          /\ CharRank(a[i]) < CharRank(b[i])

\* The number of keys listed before a new one.
KeysBefore(keys, key) ==
    Cardinality({ i \in 1..Len(keys) : KeyBefore(keys[i], key) })

\* StorageManager::get_screenshot_data, the loop over the listing: the first
\* key that contains the text of the id.
FirstContaining(keys, screenshot_id) ==
    LET matching == { i \in 1..Len(keys) : Contains(keys[i], screenshot_id) }
    IN  IF matching = {} THEN None
        ELSE Some(keys[CHOOSE i \in matching : \A j \in matching : i <= j])

\* StorageManager::store_diff_image: the path of the file and the URL
\* returned.
DiffFilePath(date, baseline_id, current_id) ==
    [dir |-> "diffs", date |-> date, baseline |-> baseline_id,
     current |-> current_id, ext |-> ".png"]

DiffImageUrl(bucket_name, file_path) ==
    [host |-> "http://localhost:9000", bucket |-> bucket_name, key |-> file_path]

\* shared::VisualComparison (id and created_at carry no behaviour)
VisualComparison(req, work) ==
    [baseline_screenshot_id |-> req.baseline_screenshot_id,
     current_screenshot_id |-> req.current_screenshot_id,
     difference_percentage |-> work.difference_percentage,
     different_pixels |-> work.comparison_result.different_pixels,
     total_pixels |-> work.total_pixels,
     diff_image_path |-> work.diff_image_path,
     passed |-> work.passed,
     threshold |-> req.threshold]

\* ------------------------------------------------------------------ inputs

Sel_Id == <<"#", "a">>
Sel_Css == <<".", "b">>
Txt_Hi == <<"H", "i">>
Txt_HiPadded == <<" ", "H", "i", " ">>
Txt_AttrPair == <<"t", "=", "v">>
Txt_Url == <<"h", ":", "/", "x">>

\* The URL of the suite.
SuiteUrl == <<"h", ":", "/">>

Click(target) == TestAction("Click", target, None, None)
TypeInto(target, value) == TestAction("Type", target, value, None)

\* The shapes of test case the suites of the model are built from: each kind
\* of assertion, with and without its required fields, and action lists
\* that succeed, fail at a lookup, or lack a value.
CaseShapes ==
    { [test_type |-> "ElementExists", target_element |-> Some(Sel_Id),
       expected_value |-> None, actions |-> <<>>],
      [test_type |-> "ElementVisible", target_element |-> None,
       expected_value |-> None, actions |-> <<>>],
      [test_type |-> "ElementText", target_element |-> Some(Sel_Css),
       expected_value |-> Some(Txt_Hi),
       actions |-> <<TestAction("Wait", <<>>, Some(<<"5">>), Some(0)), Click(Sel_Id)>>],
      [test_type |-> "ElementAttribute", target_element |-> Some(Sel_Id),
       expected_value |-> Some(Txt_AttrPair), actions |-> <<>>],
      [test_type |-> "ElementAttribute", target_element |-> Some(Sel_Id),
       expected_value |-> Some(Txt_Hi), actions |-> <<>>],
      [test_type |-> "PageTitle", target_element |-> None,
       expected_value |-> Some(Txt_Hi),
       actions |-> <<TypeInto(Sel_Id, None), Click(Sel_Id)>>],
      [test_type |-> "FormSubmission", target_element |-> None,
       expected_value |-> None,
       actions |-> <<TestAction("Scroll", Sel_Id, None, None)>>],
      [test_type |-> "Navigation", target_element |-> None,
       expected_value |-> Some(Txt_Url),
       actions |-> <<TestAction("Navigate", <<>>, Some(Txt_Url), None)>>],
      [test_type |-> "VisualRegression", target_element |-> None,
       expected_value |-> None,
       actions |-> <<TestAction("Screenshot", <<>>, None, None)>>] }

\* Suites of at most MaxCases cases; a case's id is its position in the list.
SuitesOfLen(n) ==
    { [i \in 1..n |->
          TestCase(i, f[i].test_type, f[i].target_element, f[i].expected_value,
                   f[i].actions)] : f \in [1..n -> CaseShapes] }

Suites == UNION { SuitesOfLen(n) : n \in 0..MaxCases }

\* Longest page-readiness timeout of the model, in milliseconds.
MaxTimeoutMs == 100

Configs ==
    { [timeout_ms |-> t, wait_after_action_ms |-> DefaultWaitAfterActionMs,
       screenshot_on_failure |-> s] : t \in {MaxTimeoutMs}, s \in BOOLEAN }

\* What the page can answer to an assertion of the case's kind.
NoAnswer ==
    [found |-> FALSE, displayed |-> "error", text |-> Err(<<>>),
     attr |-> Err(None), title |-> Err(<<>>), url |-> Err(<<>>)]

PageTexts == {Txt_HiPadded, Txt_Url}

PageAnswers(tc) ==
    CASE tc.test_type = "ElementExists" ->
            { [NoAnswer EXCEPT !.found = b] : b \in BOOLEAN }
      [] tc.test_type = "ElementVisible" ->
            {NoAnswer} \cup
            { [NoAnswer EXCEPT !.found = TRUE, !.displayed = d] :
                  d \in {"true", "false", "error"} }
      [] tc.test_type = "ElementText" ->
            {NoAnswer} \cup
            { [NoAnswer EXCEPT !.found = TRUE, !.text = t] :
                  t \in {Ok(x) : x \in PageTexts} \cup {Err(<<"stale element">>)} }
      [] tc.test_type = "ElementAttribute" ->
            {NoAnswer} \cup
            { [NoAnswer EXCEPT !.found = TRUE, !.attr = a] :
                  a \in {Ok(Some(<<"v">>)), Ok(Some(<<"w">>)), Err(None)} }
      [] tc.test_type = "PageTitle" ->
            { [NoAnswer EXCEPT !.title = t] :
                  t \in {Ok(x) : x \in PageTexts}
                        \cup {Err(<<"Failed to get page title">>)} }
      [] tc.test_type = "Navigation" ->
            { [NoAnswer EXCEPT !.url = u] :
                  u \in {Ok(x) : x \in PageTexts}
                        \cup {Err(<<"Failed to get current URL">>)} }
      [] OTHER -> {NoAnswer}

\* ------------------------------------------------------------------- state

VARIABLES
    config,       \* the ExecutionConfig of the executor
    test_cases,   \* the suite's test cases (input, never changed)
    pc,           \* where the run is
    execution,    \* the TestExecution under construction
    client,       \* the WebDriver session: none | open | dropped | closed | close_failed
    idx,          \* number of test cases whose result has been recorded
    test_result,  \* the TestResult of the case in progress
    aidx,         \* number of actions of the case in progress that succeeded
    step,         \* calls issued so far by the action or assertion in progress
    attempts,     \* polls of wait_for_page_load so far
    trace,        \* every call issued so far, in order
    now,          \* the clock (Utc::now, Instant::now)
    runner_ret,   \* what TestRunner::execute_test_suite returned
    ret,          \* what TestExecutor::execute_test_suite returned
    answers,      \* what the page answered to the evaluator's last queries
    comparator,   \* the ImageComparator of the visual engine
    storage,      \* the StorageManager: its bucket and the keys of the
                  \* screenshots in it, as listed
    screenshots,  \* what the bytes of each listed screenshot decode to
    request,      \* the comparison requested: the two ids and the threshold
    cpc,          \* where compare_screenshots is
    work,         \* the locals of compare_screenshots
    files,        \* every difference image written so far, locally or to the bucket, in order
    logged,       \* the comparisons handed to store_comparison, in order
    cret,         \* what compare_screenshots returned
    reads,        \* the steps of retrieval and decoding the call has taken, in order
    invocations,  \* the calls of compare_screenshots so far
    parked,       \* the locals of the other calls of compare_screenshots in progress
    storing,      \* the call of store_screenshot in progress
    runs,         \* the suite runs executing concurrently, each with its locals
    sessions,     \* every WebDriver session opened by a concurrent run, in order
    service,      \* the test executor service: its AppState and the requests served
    capture       \* one screenshot capture of the visual engine's browser

vars ==
    <<config, test_cases, pc, execution, client, idx, test_result, aidx, step,
      attempts, trace, now, runner_ret, ret, answers,
      comparator, storage, screenshots, request, cpc, work, files, logged, cret,
      reads, invocations, parked, storing, runs, sessions, service, capture>>

\* The state of the suite run, and the state of the visual engine.
runVars ==
    <<config, test_cases, pc, execution, client, idx, test_result, aidx, step,
      attempts, trace, now, runner_ret, ret, answers>>

visualVars ==
    <<comparator, storage, screenshots, request, cpc, work, files, logged, cret,
      reads, invocations, parked, storing>>

NoResult == [id |-> 0, test_case_id |-> 0, status |-> "Pending", started_at |-> 0,
             completed_at |-> None, duration_ms |-> None, error_message |-> None,
             screenshot_path |-> None, logs |-> <<>>, assertions |-> <<>>]

NotReturned == [ok |-> FALSE, v |-> <<"not returned">>]

\* Trace entries: the calls of test case k (0: the suite itself) and of its
\* action n (0: the assertion, or the suite).
Tagged(k, n, calls) ==
    [i \in 1..Len(calls) |-> [case |-> k, action |-> n, call |-> calls[i]]]

\* The invocation of execute_action / execute_test_assertion and its result.
Invocation(op, ok) == Answered(BrowserCall(op), ok)

\* Mutant of LoopContinues: the loop left at the first failed case.
LoopContinues_StopOnFailure(exec, done, n) == done < n /\ exec.failed_tests = 0

\* `for test_case in test_cases`: the loop goes on while cases remain.
LoopContinues(exec, done, n) == done < n

\* Mutant of NavigationFailureCalls: the return without the close.
NavigationFailureCalls_NoClose(closeOk) == <<>>

\* The calls of the navigation-failure path once the goto has failed:
\* close_browser_session, whose result is discarded.
NavigationFailureCalls(closeOk) == <<Answered(BrowserCall("close"), closeOk)>>

\* The session after the calls: closed by a close call, untouched otherwise.
ClientAfter(c, calls) ==
    IF \E i \in 1..Len(calls) : calls[i].op = "close"
    THEN IF \E i \in 1..Len(calls) : calls[i].op = "close" /\ calls[i].ok
         THEN "closed" ELSE "close_failed"
    ELSE c

\* compare_screenshots before its images are loaded.
NoImage == Image(0, 0, <<>>)

\* which: the screenshot being retrieved; key: the key found for it;
\* baseline_data, current_data: the key of the object whose bytes were read;
\* diff_file: the difference image written locally and its path.
NoWork ==
    [which |-> "baseline", key |-> None,
     baseline_data |-> None, current_data |-> None,
     baseline_img |-> NoImage, current_img |-> NoImage,
     comparison_result |-> [different_pixels |-> 0, diff_mask |-> NoImage],
     total_pixels |-> 0, difference_percentage |-> F64Zero, passed |-> FALSE,
     diff_file |-> None, diff_image_path |-> None]

\* No call of store_screenshot in progress.
NotStoring == [pc |-> "idle", key |-> <<>>, data |-> NoImage]

\* The visual engine with no comparison requested.
VisualIdle ==
    /\ comparator = DefaultComparator
    /\ storage = [bucket_name |-> DefaultBucket, keys |-> <<>>]
    /\ screenshots = <<>>
    /\ request = [baseline_screenshot_id |-> <<>>, current_screenshot_id |-> <<>>,
                  threshold |-> F64Zero]
    /\ cpc = "idle"
    /\ work = NoWork
    /\ files = <<>>
    /\ logged = <<>>
    /\ cret = NotReturned
    /\ reads = <<>>
    /\ invocations = 0
    /\ parked = <<>>
    /\ storing = NotStoring

\* The state of the host around the runs: concurrent runs, the service, the
\* screenshot capture.
hostVars == <<runs, sessions, service, capture>>

\* No concurrent run, no request served, no capture requested.
RunsIdle == runs = <<>> /\ sessions = <<>>

ServiceIdle == service = [config |-> DefaultConfig, served |-> <<>>]

CaptureIdle ==
    capture = [pc |-> "idle", viewport |-> [width |-> 0, height |-> 0],
               wait_ms |-> None, session |-> "none",
               calls |-> <<>>, ret |-> NotReturned]

HostIdle == RunsIdle /\ ServiceIdle /\ CaptureIdle

Init ==
    /\ config \in Configs
    /\ test_cases \in Suites
    /\ pc = "new"
    /\ execution = NewExecution(0)
    /\ client = "none"
    /\ idx = 0
    /\ test_result = NoResult
    /\ aidx = 0
    /\ step = 0
    /\ attempts = 0
    /\ trace = <<>>
    /\ now = 0
    /\ runner_ret = NotReturned
    /\ ret = NotReturned
    /\ answers = NoAnswer
    /\ VisualIdle
    /\ HostIdle

\* TestExecutor::execute_test_suite up to the call of the runner:
\* TestRunner::new(config).await?
NewRunner ==
    /\ pc = "new"
    /\ \E webdriverUp \in BOOLEAN :
          IF TestRunner_new(config, webdriverUp).ok
          THEN /\ pc' = "start"
               /\ ret' = ret
          ELSE /\ pc' = "done"
               /\ ret' = Err(<<"Failed to create test runner">>)
    /\ now' = now + 1
    /\ UNCHANGED <<hostVars, visualVars, answers, config, test_cases, execution, client, idx, test_result, aidx, step,
                   attempts, trace, runner_ret>>

\* execute_test_suite: the execution record is created, then
\* start_browser_session connects to the WebDriver.
Connect ==
    /\ pc = "start"
    /\ \E ok \in BOOLEAN :
          /\ trace' = trace \o Tagged(0, 0, <<Answered(BrowserCall("connect"), ok)>>)
          /\ IF ok
             THEN /\ client' = "open"
                  /\ execution' = NewExecution(Len(test_cases))
                  /\ pc' = "window"
                  /\ runner_ret' = runner_ret
             ELSE /\ client' = "none"
                  /\ execution' = SessionStartFailed(NewExecution(Len(test_cases))).v
                  /\ pc' = "returned"
                  /\ runner_ret' = SessionStartFailed(NewExecution(Len(test_cases)))
    /\ now' = now + 1
    /\ UNCHANGED <<hostVars, visualVars, answers, config, test_cases, idx, test_result, aidx, step, attempts, ret>>

\* start_browser_session: set_window_size on the connected client; on its
\* failure `?` returns the error and the client is dropped without close.
SetWindowSize ==
    /\ pc = "window"
    /\ \E ok \in BOOLEAN :
          /\ trace' = trace
                 \o Tagged(0, 0, <<Answered(BrowserCall("set_window_size"), ok)>>)
          /\ IF ok
             THEN /\ client' = client
                  /\ execution' = execution
                  /\ pc' = "goto"
                  /\ runner_ret' = runner_ret
             ELSE /\ client' = "dropped"
                  /\ execution' = SessionStartFailed(execution).v
                  /\ pc' = "returned"
                  /\ runner_ret' = SessionStartFailed(execution)
    /\ now' = now + 1
    /\ UNCHANGED <<hostVars, visualVars, answers, config, test_cases, idx, test_result, aidx, step, attempts, ret>>

\* "Navigate to the target URL": client.goto(url); on failure the status
\* is set to Failed.
Goto ==
    /\ pc = "goto"
    /\ \E ok \in BOOLEAN :
          /\ trace' = trace \o Tagged(0, 0, <<Answered(TextCall("goto", SuiteUrl), ok)>>)
          /\ IF ok
             THEN /\ pc' = "page_load"
                  /\ execution' = execution
             ELSE /\ pc' = "goto_failed"
                  /\ execution' = NavigationFailed(execution).v
    /\ now' = now + 1
    /\ UNCHANGED <<hostVars, visualVars, answers, config, test_cases, client, idx, test_result,
                   aidx, step, attempts, runner_ret, ret>>

\* The navigation failed: close_browser_session, then the run returns its
\* execution.
GotoFailed ==
    /\ pc = "goto_failed"
    /\ \E closeOk \in BOOLEAN :
          /\ trace' = trace \o Tagged(0, 0, NavigationFailureCalls(closeOk))
          /\ client' = ClientAfter(client, NavigationFailureCalls(closeOk))
    /\ runner_ret' = Ok(execution)
    /\ pc' = "returned"
    /\ now' = now + 1
    /\ UNCHANGED <<hostVars, visualVars, answers, config, test_cases, execution, idx,
                   test_result, aidx, step, attempts, ret>>

\* wait_for_page_load: one poll of document.readyState; the wait ends when
\* the page is ready.
PagePoll ==
    /\ pc = "page_load"
    /\ attempts < MaxAttempts(config)
    /\ \E answer \in {"ready", "not ready", "error"} :
          /\ trace' = trace
                 \o Tagged(0, 0, <<Answered(BrowserCall("ready_state"),
                                            answer # "error")>>)
          /\ pc' = IF answer = "ready" THEN "loop" ELSE "page_sleep"
    /\ now' = now + 1
    /\ UNCHANGED <<hostVars, visualVars, answers, config, test_cases, execution, client, idx, test_result, aidx, step,
                   attempts, runner_ret, ret>>

\* wait_for_page_load: the page was not ready; a sleep of the poll
\* interval, and one more attempt counted.
PageSleep ==
    /\ pc = "page_sleep"
    /\ trace' = trace \o Tagged(0, 0, <<SleepCall(PollIntervalMs)>>)
    /\ attempts' = attempts + 1
    /\ pc' = "page_load"
    /\ now' = now + 1
    /\ UNCHANGED <<hostVars, visualVars, answers, config, test_cases, execution, client, idx, test_result, aidx, step,
                   runner_ret, ret>>

\* wait_for_page_load: the attempts are used up; a warning, and Ok.
PageLoadTimeout ==
    /\ pc = "page_load"
    /\ attempts >= MaxAttempts(config)
    /\ pc' = "loop"
    /\ now' = now + 1
    /\ UNCHANGED <<hostVars, visualVars, answers, config, test_cases, execution, client, idx, test_result, aidx, step,
                   attempts, trace, runner_ret, ret>>

\* The loop takes the next test case: execute_test_case creates its result.
BeginCase ==
    /\ pc = "loop"
    /\ LoopContinues(execution, idx, Len(test_cases))
    /\ test_result' = NewTestResult(idx + 1, test_cases[idx + 1], now)
    /\ aidx' = 0
    /\ step' = 0
    /\ pc' = "case"
    /\ now' = now + 1
    /\ UNCHANGED <<hostVars, visualVars, answers, config, test_cases, execution, client, idx, attempts, trace,
                   runner_ret, ret>>

\* The trace once the invocation in progress, of case k and action n, has
\* issued `call`: the entry of the invocation comes first and carries its
\* result, Ok until it returns an error.
Issued(k, n, op, call, failed) ==
    LET begun == IF step = 0
                 THEN trace \o Tagged(k, n, <<Invocation(op, TRUE)>>)
                 ELSE trace
        entry == Len(begun) - step
    IN  (IF failed THEN [begun EXCEPT ![entry].call.ok = FALSE] ELSE begun)
            \o Tagged(k, n, call)

\* execute_test_case, an Err arm: the result is marked, and the case goes
\* on to the screenshot when the option is on, to its return otherwise.
CaseFailed(tr) ==
    IF config.screenshot_on_failure
    THEN /\ test_result' = tr
         /\ pc' = "failure_shot"
    ELSE /\ test_result' = StampCompleted(FailureScreenshot(config, tr, FALSE), now)
         /\ pc' = "case_return"

\* execute_test_case: the next call of the next action of the case. An
\* action without its value fails before any call; a call that fails ends
\* the action and the case; the last call of the action, its post-action
\* wait, completes it.
RunAction ==
    /\ pc = "case"
    /\ aidx < Len(test_cases[idx + 1].actions)
    /\ LET action == test_cases[idx + 1].actions[aidx + 1]
           calls == execute_action(config, action, 0).calls
       IN  IF execute_action(config, action, 0).calls = <<>>
           THEN /\ trace' = Issued(idx + 1, aidx + 1, "execute_action", <<>>,
                                    ~execute_action(config, action, 0).res.ok)
                /\ IF execute_action(config, action, 0).res.ok
                   THEN /\ test_result' =
                               ActionSucceeded(test_result,
                                               execute_action(config, action, 0).res.v)
                        /\ aidx' = aidx + 1
                        /\ pc' = pc
                   ELSE /\ CaseFailed(ActionFailed(test_result,
                                          execute_action(config, action, 0).res.v))
                        /\ aidx' = aidx
                /\ step' = 0
           ELSE \E ok \in {TRUE} \cup { b \in {FALSE} : CanFail(calls[step + 1]) } :
                   /\ trace' = Issued(idx + 1, aidx + 1, "execute_action",
                                       <<Answered(calls[step + 1], ok)>>, ~ok)
                   /\ IF ~ok
                      THEN /\ CaseFailed(ActionFailed(test_result,
                                  execute_action(config, action, step + 1).res.v))
                           /\ aidx' = aidx
                           /\ step' = 0
                      ELSE IF step + 1 = Len(calls)
                      THEN /\ test_result' =
                                  ActionSucceeded(test_result,
                                                  execute_action(config, action, 0).res.v)
                           /\ aidx' = aidx + 1
                           /\ step' = 0
                           /\ pc' = pc
                      ELSE /\ step' = step + 1
                           /\ UNCHANGED <<test_result, aidx, pc>>
    /\ now' = now + 1
    /\ UNCHANGED <<hostVars, visualVars, answers, config, test_cases, execution, client, idx, attempts,
                   runner_ret, ret>>

\* The calls the assertion in progress has issued so far, as answered.
IssuedCalls == [i \in 1..step |-> trace[Len(trace) - step + i].call]

\* execute_test_case: all actions succeeded; the next call of the assertion
\* of the case, the page answering as one of `pages` does. An assertion that
\* needs no call, or lacks a field, returns at once; the answer to the last
\* call gives the result.
EvaluateWith(pages) ==
    /\ pc = "case"
    /\ aidx = Len(test_cases[idx + 1].actions)
    /\ LET tc == test_cases[idx + 1] IN
       \E page \in pages :
          LET out == execute_test_assertion(tc, page) IN
          /\ Len(out.calls) >= step
          /\ SubSeq(out.calls, 1, step) = IssuedCalls
          /\ Len(out.calls) > step \/ out.calls = <<>>
          /\ IF Len(out.calls) > step + 1
             THEN /\ trace' = Issued(idx + 1, 0, "execute_test_assertion",
                                      <<out.calls[step + 1]>>, FALSE)
                  /\ step' = step + 1
                  /\ UNCHANGED <<answers, test_result, pc>>
             ELSE /\ trace' = Issued(idx + 1, 0, "execute_test_assertion",
                                      SubSeq(out.calls, step + 1, Len(out.calls)),
                                      ~out.res.ok)
                  /\ answers' = IF out.calls = <<>> THEN NoAnswer ELSE page
                  /\ step' = 0
                  /\ IF out.res.ok
                     THEN /\ test_result' = AssertionOk(test_result, out.res.v, now)
                          /\ pc' = "case_return"
                     ELSE CaseFailed(AssertionErr(test_result, out.res.v))
    /\ now' = now + 1
    /\ UNCHANGED <<hostVars, visualVars, config, test_cases, execution, client, idx, aidx,
                   attempts, runner_ret, ret>>

RunAssertion == EvaluateWith(PageAnswers(test_cases[idx + 1]))

\* execute_test_case, "Take screenshot on failure": take_screenshot, the
\* path and the log line when it returned Ok, then the completion stamp.
FailureShot ==
    /\ pc = "failure_shot"
    /\ \E callOk \in BOOLEAN, decodeOk \in BOOLEAN :
          /\ trace' = trace
                 \o Tagged(idx + 1,
                           IF aidx < Len(test_cases[idx + 1].actions)
                           THEN aidx + 1 ELSE 0,
                           ScreenshotCalls(config, callOk))
          /\ test_result' =
                 StampCompleted(
                     FailureScreenshot(config, test_result,
                                       take_screenshot(callOk, decodeOk).res.ok),
                     now)
    /\ pc' = "case_return"
    /\ now' = now + 1
    /\ UNCHANGED <<hostVars, visualVars, answers, config, test_cases, execution, client, idx, aidx, step,
                   attempts, runner_ret, ret>>

\* The loop body after execute_test_case returned: the counter, the push.
FinishCase ==
    /\ pc = "case_return"
    /\ execution' = RecordResult(execution, test_result)
    /\ idx' = idx + 1
    /\ pc' = "loop"
    /\ now' = now + 1
    /\ UNCHANGED <<hostVars, visualVars, answers, config, test_cases, client, test_result, aidx, step, attempts, trace,
                   runner_ret, ret>>

\* After the loop: close_browser_session (its failure only logs), then the
\* completion stamp, the final status and the return.
CloseSession ==
    /\ pc = "loop"
    /\ ~LoopContinues(execution, idx, Len(test_cases))
    /\ \E closeOk \in BOOLEAN :
          /\ trace' = trace \o Tagged(0, 0, <<Answered(BrowserCall("close"), closeOk)>>)
          /\ client' = ClientAfter(client, <<Answered(BrowserCall("close"), closeOk)>>)
    /\ execution' = Completed(execution, now).v
    /\ runner_ret' = Completed(execution, now)
    /\ pc' = "returned"
    /\ now' = now + 1
    /\ UNCHANGED <<hostVars, visualVars, answers, config, test_cases, idx, test_result, aidx, step, attempts, ret>>

\* TestExecutor::execute_test_suite: the runner's result, through `?`.
ExecutorReturn ==
    /\ pc = "returned"
    /\ ret' = ExecutorResult(runner_ret)
    /\ pc' = "done"
    /\ now' = now + 1
    /\ UNCHANGED <<hostVars, visualVars, answers, config, test_cases, execution, client, idx, test_result, aidx, step,
                   attempts, trace, runner_ret>>

Next ==
    \/ NewRunner
    \/ Connect
    \/ SetWindowSize
    \/ Goto
    \/ GotoFailed
    \/ PagePoll
    \/ PageSleep
    \/ PageLoadTimeout
    \/ BeginCase
    \/ RunAction
    \/ RunAssertion
    \/ FailureShot
    \/ FinishCase
    \/ CloseSession
    \/ ExecutorReturn

Spec == Init /\ [][Next]_vars

\* ------------------------------------------- one case, any expected value

\* Longest expected value and page text of the evaluator's inputs.
MaxLen == 3

\* Characters the evaluator treats differently: white space, the separator
\* of an attribute pair, and an ordinary character.
EvalChars == {" ", "a", "="}

EvalStrings == UNION { [1..n -> EvalChars] : n \in 0..MaxLen }

\* Texts of a page with white space other than the space: a form feed in
\* front, a no-break space behind.
WhiteTexts == { <<"\f", "a">>, <<"a", "U+00A0">> }

\* The kinds whose assertion is a placeholder.
PlaceholderKinds == {"FormSubmission", "VisualRegression"}

\* One test case of any kind, with or without its target and with any
\* expected value: with no action, and for the placeholder kinds also with
\* one action, which may fail.
EvalCases ==
    { TestCase(1, ty, target, expected, <<>>) :
          ty \in TestTypes, target \in {None, Some(Sel_Id)},
          expected \in {None} \cup {Some(x) : x \in EvalStrings} }
    \cup
    { TestCase(1, ty, target, expected, <<Click(Sel_Css)>>) :
          ty \in PlaceholderKinds, target \in {None, Some(Sel_Id)},
          expected \in {None} \cup {Some(x) : x \in EvalStrings} }

\* What the page can answer to the assertion of the case: any text, any
\* attribute value or none, or an error.
EvalPageAnswers(tc) ==
    CASE tc.test_type = "ElementExists" ->
            { [NoAnswer EXCEPT !.found = b] : b \in BOOLEAN }
      [] tc.test_type = "ElementVisible" ->
            {NoAnswer} \cup
            { [NoAnswer EXCEPT !.found = TRUE, !.displayed = d] :
                  d \in {"true", "false", "error"} }
      [] tc.test_type = "ElementText" ->
            {NoAnswer} \cup
            { [NoAnswer EXCEPT !.found = TRUE, !.text = t] :
                  t \in {Ok(x) : x \in EvalStrings \cup WhiteTexts}
                        \cup {Err(<<"stale element">>)} }
      [] tc.test_type = "ElementAttribute" ->
            {NoAnswer} \cup
            { [NoAnswer EXCEPT !.found = TRUE, !.attr = a] :
                  a \in {Ok(Some(x)) : x \in EvalStrings}
                        \cup {Ok(None), Err(None)} }
      [] tc.test_type = "PageTitle" ->
            { [NoAnswer EXCEPT !.title = t] :
                  t \in {Ok(x) : x \in EvalStrings \cup WhiteTexts}
                        \cup {Err(<<"Failed to get page title">>)} }
      [] tc.test_type = "Navigation" ->
            { [NoAnswer EXCEPT !.url = u] :
                  u \in {Ok(x) : x \in EvalStrings}
                        \cup {Err(<<"Failed to get current URL">>)} }
      [] OTHER -> {NoAnswer}

\* The calls of a run up to the case loop when nothing failed.
SessionReadyCalls ==
    <<BrowserCall("connect"), BrowserCall("set_window_size"),
      TextCall("goto", SuiteUrl), BrowserCall("ready_state")>>

\* A run of a one-case suite at the head of the case loop: the session is
\* open, the page is loaded.
EvalInit ==
    /\ config \in Configs
    /\ test_cases \in { <<tc>> : tc \in EvalCases }
    /\ pc = "loop"
    /\ execution = NewExecution(1)
    /\ client = "open"
    /\ idx = 0
    /\ test_result = NoResult
    /\ aidx = 0
    /\ step = 0
    /\ attempts = 0
    /\ trace = Tagged(0, 0, SessionReadyCalls)
    /\ now = Len(SessionReadyCalls) + 1
    /\ runner_ret = NotReturned
    /\ ret = NotReturned
    /\ answers = NoAnswer
    /\ VisualIdle
    /\ HostIdle

EvaluateCase == EvaluateWith(EvalPageAnswers(test_cases[idx + 1]))

EvalNext ==
    \/ BeginCase
    \/ RunAction
    \/ EvaluateCase
    \/ FailureShot
    \/ FinishCase
    \/ CloseSession
    \/ ExecutorReturn

EvalSpec == EvalInit /\ [][EvalNext]_vars

\* ------------------------------------------- one comparison of screenshots

\* Largest width and height of a screenshot.
MaxDim == 2

Black == <<0, 0, 0>>
White == <<255, 255, 255>>

PixelValues == {Black, White}

ImagesOfSize(w, h) == { Image(w, h, px) : px \in [Coords(w, h) -> PixelValues] }

Images == UNION { ImagesOfSize(w, h) : w \in 1..MaxDim, h \in 1..MaxDim }

UniformImages ==
    { Image(w, h, [c \in Coords(w, h) |-> Black]) : w \in 1..MaxDim, h \in 1..MaxDim }

\* Largest width and height of a screenshot with a block of changed pixels.
MaxBlockDim == 5

\* The sides of the blocks: a single pixel, and three by three.
BlockSides == {1, 3}

\* A black square of side d with a white square block of side k whose top
\* left corner is (x0, y0).
BlockImage(d, x0, y0, k) ==
    Image(d, d, [c \in Coords(d, d) |->
                    IF /\ c[1] \in x0..(x0 + k - 1)
                       /\ c[2] \in y0..(y0 + k - 1)
                    THEN White ELSE Black])

\* Where a block of side k lies in a square of side d without touching the
\* border.
BlockOffsets(d, k) == (1..(d - k - 1)) \X (1..(d - k - 1))

\* A black square baseline, and the same with one white block that does not
\* touch the border.
BlockPairs ==
    UNION { { <<BlockImage(d, 0, 0, 0), BlockImage(d, o[1], o[2], k)>> :
                  o \in BlockOffsets(d, k) } :
            d \in 1..MaxBlockDim, k \in BlockSides }

\* Channel values at, just above and below the default pixel threshold.
EdgeValues == {0, DefaultPixelThreshold, DefaultPixelThreshold + 1}

\* One-pixel images whose channels are at the edge of the threshold.
EdgeImages ==
    { Image(1, 1, [c \in Coords(1, 1) |-> <<r, g, b>>]) :
          r \in EdgeValues, g \in EdgeValues, b \in EdgeValues }

\* A black pixel against a pixel at the edge of the threshold, either being
\* the baseline.
EdgePairs ==
    LET black == Image(1, 1, [c \in Coords(1, 1) |-> Black])
    IN  ({black} \X EdgeImages) \cup (EdgeImages \X {black})

\* Largest side of a screenshot with a block that may touch the border.
MaxBorderDim == 3

\* A black square baseline, and the same with one white block anywhere in
\* it, the border and the corners included.
BorderPairs ==
    UNION { { <<BlockImage(d, 0, 0, 0), BlockImage(d, x0, y0, k)>> :
                  x0 \in 0..(d - k), y0 \in 0..(d - k) } :
            d \in 1..MaxBorderDim, k \in 1..2 }

\* A black square of side d whose first k pixels, row by row, are white.
LeadingImage(d, k) ==
    Image(d, d, [c \in Coords(d, d) |-> IF c[2] * d + c[1] < k THEN White ELSE Black])

\* A black square baseline and the same with its first pixels white, of
\* sizes for which the f64 percentage is not the exact one: 7 of 25 pixels
\* are 28 percent, and (7.0 / 25.0) * 100.0 is the f64 next above 28.0.
LeadingPairs ==
    { <<BlockImage(p.side, 0, 0, 0), LeadingImage(p.side, p.different)>> :
          p \in {[side |-> 5, different |-> 7]} }

\* The baseline and the current screenshot: an image and an identical copy
\* of it, or a uniform baseline and any image of any size.
ScreenshotPairs ==
    { <<a, a>> : a \in Images } \cup (UniformImages \X Images) \cup BlockPairs
        \cup EdgePairs \cup BorderPairs \cup LeadingPairs

\* The thresholds requested, in percent, as the f64 nearest to each; 0.1 is
\* the default of the handler.
Thresholds ==
    {F64Ratio(0 - 1, 1), F64Zero, F64Ratio(1, 10), F64Ratio(25, 1),
     F64Ratio(28, 1), F64Ratio(50, 1)}

Comparators == { with_config(DefaultPixelThreshold, aa) : aa \in BOOLEAN }

\* The day a screenshot or a difference image is stored, as formatted in
\* its path.
Dates == {"2024/01/01"}

\* Screenshot ids: the text of a Uuid, shortened to two characters.
IdA == <<"a", "1">>
IdB == <<"b", "2">>
IdC == <<"c", "3">>

ScreenshotIds == {IdA, IdB, IdC}

\* The URLs screenshots are captured from: one that holds no id, and one
\* that ends with the text of an id.
UrlPlain == <<"http://", "x">>

UrlNaming(screenshot_id) == <<"http://", "x", "/">> \o screenshot_id

\* The keys of the screenshots IdA and IdB, captured from two URLs at the
\* same dimensions on the same day.
TwoKeys(url1, url2) ==
    LET date == CHOOSE d \in Dates : TRUE
    IN  <<ScreenshotKey(date, url1, "1920x1080", IdA),
          ScreenshotKey(date, url2, "1920x1080", IdB)>>

\* The keys are in the order of a listing.
Listed(keys) == \A i, j \in 1..Len(keys) : i < j => KeyBefore(keys[i], keys[j])

\* Requests and buckets other than the comparison of the two stored
\* screenshots: an id of which the bucket holds no screenshot, alone or as
\* the end of the URL another screenshot was captured from, and a stored
\* object that is not an image (store_screenshot uploads the bytes before
\* it decodes them). NoImage stands for what such bytes decode to.
IrregularLayouts ==
    LET black == Image(1, 1, [c \in Coords(1, 1) |-> Black])
        white == Image(1, 1, [c \in Coords(1, 1) |-> White])
        plain == TwoKeys(UrlPlain, UrlPlain)
    IN  {[keys |-> plain, screenshots |-> <<black, white>>,
          baseline |-> IdC, current |-> IdB],
         [keys |-> plain, screenshots |-> <<black, white>>,
          baseline |-> IdA, current |-> IdC],
         [keys |-> TwoKeys(UrlPlain, UrlNaming(IdC)), screenshots |-> <<black, white>>,
          baseline |-> IdA, current |-> IdC],
         [keys |-> plain, screenshots |-> <<NoImage, white>>,
          baseline |-> IdA, current |-> IdB],
         [keys |-> plain, screenshots |-> <<black, NoImage>>,
          baseline |-> IdA, current |-> IdB]}

\* The runner of the test executor with no run in progress.
RunnerAtRest ==
    /\ test_cases = <<>>
    /\ pc = "idle"
    /\ execution = NewExecution(0)
    /\ client = "none"
    /\ idx = 0
    /\ test_result = NoResult
    /\ aidx = 0
    /\ step = 0
    /\ attempts = 0
    /\ trace = <<>>
    /\ now = 0
    /\ runner_ret = NotReturned
    /\ ret = NotReturned
    /\ answers = NoAnswer

\* The test executor with no run requested, under its default
\* configuration.
RunnerIdle ==
    /\ config = DefaultConfig
    /\ RunnerAtRest

\* `request.threshold.unwrap_or(0.1)`
DefaultThreshold == F64Ratio(1, 10)

\* The handler compare_screenshots has called
\* ImageComparator::compare_screenshots(baseline_id, current_id, threshold):
\* for the two screenshots of the bucket and any threshold, or for one of
\* the irregular layouts.
CompareInit ==
    /\ RunnerIdle
    /\ HostIdle
    /\ comparator \in Comparators
    /\ \/ /\ storage = [bucket_name |-> DefaultBucket,
                        keys |-> TwoKeys(UrlPlain, UrlPlain)]
          /\ screenshots \in ScreenshotPairs
          /\ \E t \in Thresholds :
                request = [baseline_screenshot_id |-> IdA,
                           current_screenshot_id |-> IdB, threshold |-> t]
       \/ \E layout \in IrregularLayouts :
             /\ storage = [bucket_name |-> DefaultBucket, keys |-> layout.keys]
             /\ screenshots = layout.screenshots
             /\ request = [baseline_screenshot_id |-> layout.baseline,
                           current_screenshot_id |-> layout.current,
                           threshold |-> DefaultThreshold]
    /\ Listed(storage.keys)
    /\ cpc = "request"
    /\ work = NoWork
    /\ files = <<>>
    /\ logged = <<>>
    /\ cret = NotReturned
    /\ reads = <<>>
    /\ invocations = 1
    /\ parked = <<>>
    /\ storing = NotStoring

\* "Load both screenshots", "Load images": the context of the error each
\* of the four steps returns through `?`.
LoadFailures ==
    {"Failed to load baseline screenshot", "Failed to load current screenshot",
     "Failed to decode baseline image", "Failed to decode current image"}

LoadContext(which) ==
    IF which = "baseline" THEN "Failed to load baseline screenshot"
    ELSE "Failed to load current screenshot"

DecodeContext(which) ==
    IF which = "baseline" THEN "Failed to decode baseline image"
    ELSE "Failed to decode current image"

\* The id of the screenshot being retrieved.
RequestedId(req, which) ==
    IF which = "baseline" THEN req.baseline_screenshot_id
    ELSE req.current_screenshot_id

\* A step of the retrieval or the decoding of a screenshot and how it ended.
ReadStep(op, which, ok) == [op |-> op, which |-> which, ok |-> ok]

\* What the steps of a comparison leave alone, the files apart.
compareFrame ==
    <<hostVars, runVars, comparator, storage, screenshots, request, logged,
      invocations, parked, storing>>

\* get_screenshot_data, `list_objects_with_prefix("screenshots/").await`:
\* an error of the listing is dropped by `if let Ok`, and the loop takes
\* the first key that contains the text of the id; with no such key, or no
\* listing, the screenshot is not found.
ListObjects ==
    /\ cpc = "request"
    /\ \E listed \in BOOLEAN :
          LET screenshot_id == RequestedId(request, work.which)
              found == IF listed THEN FirstContaining(storage.keys, screenshot_id)
                       ELSE None
          IN  /\ reads' = Append(reads, ReadStep("list_objects", work.which, listed))
              /\ IF found.some
                 THEN /\ work' = [work EXCEPT !.key = found]
                      /\ cpc' = "get_object"
                      /\ cret' = cret
                 ELSE /\ work' = work
                      /\ cpc' = "done"
                      /\ cret' = Err(<<LoadContext(work.which),
                                       "Screenshot not found", screenshot_id>>)
    /\ UNCHANGED <<compareFrame, files>>

\* get_object_data, `get_object()..send().await?`
GetObject ==
    /\ cpc = "get_object"
    /\ \E ok \in BOOLEAN :
          /\ reads' = Append(reads, ReadStep("get_object", work.which, ok))
          /\ cpc' = IF ok THEN "collect" ELSE "done"
          /\ cret' = IF ok THEN cret
                     ELSE Err(<<LoadContext(work.which),
                                "Failed to get object from storage">>)
    /\ UNCHANGED <<compareFrame, files, work>>

\* get_object_data, `response.body.collect().await?`: the bytes of the
\* object of the key found; after those of the baseline, the current
\* screenshot is retrieved.
CollectBody ==
    /\ cpc = "collect"
    /\ \E ok \in BOOLEAN :
          /\ reads' = Append(reads, ReadStep("collect", work.which, ok))
          /\ IF ok
             THEN /\ work' = IF work.which = "baseline"
                             THEN [work EXCEPT !.baseline_data = work.key,
                                               !.key = None,
                                               !.which = "current"]
                             ELSE [work EXCEPT !.current_data = work.key,
                                               !.key = None]
                  /\ cpc' = IF work.which = "baseline" THEN "request" ELSE "read"
                  /\ cret' = cret
             ELSE /\ work' = work
                  /\ cpc' = "done"
                  /\ cret' = Err(<<LoadContext(work.which),
                                   "Failed to read object data">>)
    /\ UNCHANGED <<compareFrame, files>>

\* What the bytes read from the object of a key decode to.
Decoded(key) ==
    screenshots[CHOOSE i \in 1..Len(storage.keys) : storage.keys[i] = key]

\* "Load images": image::load_from_memory of the baseline, then of the
\* current screenshot, each followed by `?`.
DecodeSteps(baseline, current) ==
    IF baseline = NoImage
    THEN <<ReadStep("load_from_memory", "baseline", FALSE)>>
    ELSE <<ReadStep("load_from_memory", "baseline", TRUE),
           ReadStep("load_from_memory", "current", current # NoImage)>>

DecodeImages ==
    /\ cpc = "read"
    /\ LET baseline == Decoded(work.baseline_data.v)
           current == Decoded(work.current_data.v)
           steps == DecodeSteps(baseline, current)
           last == steps[Len(steps)]
       IN  /\ reads' = reads \o steps
           /\ IF last.ok
              THEN /\ work' = [work EXCEPT !.baseline_img = baseline,
                                           !.current_img = current]
                   /\ cpc' = "loaded"
                   /\ cret' = cret
              ELSE /\ work' = work
                   /\ cpc' = "done"
                   /\ cret' = Err(<<DecodeContext(last.which)>>)
    /\ UNCHANGED <<compareFrame, files>>

\* "Ensure images have the same dimensions", "Perform pixel-by-pixel
\* comparison", "Calculate difference percentage", the verdict.
CompareImages ==
    /\ cpc = "loaded"
    /\ LET normalized == normalize_dimensions(work.baseline_img, work.current_img)
           comparison_result == compare_images(comparator, normalized[1], normalized[2])
           total_pixels == TotalPixels(normalized[1])
           difference_percentage ==
               DifferencePercentage(comparison_result.different_pixels, total_pixels)
       IN  work' = [work EXCEPT
                       !.baseline_img = normalized[1],
                       !.current_img = normalized[2],
                       !.comparison_result = comparison_result,
                       !.total_pixels = total_pixels,
                       !.difference_percentage = difference_percentage,
                       !.passed = WithinThreshold(difference_percentage,
                                                  request.threshold)]
    /\ cpc' = "compared"
    /\ UNCHANGED <<compareFrame, files, cret, reads>>

\* "Create difference image if there are differences": the image is built,
\* and store_diff_image encodes it and writes it to the local file of its
\* path (`save_screenshot_locally(..).await?`).
StoreDiffImage ==
    /\ cpc = "compared"
    /\ IF NeedsDiffImage(work.comparison_result)
       THEN \E date \in Dates,
               outcome \in {"saved", "Failed to encode diff image as PNG",
                            "Failed to save diff image locally"} :
               LET diff_img == create_difference_image(work.baseline_img,
                                   work.current_img, work.comparison_result.diff_mask)
                   file_path == DiffFilePath(date, request.baseline_screenshot_id,
                                             request.current_screenshot_id)
                   local == [store |-> "local", path |-> file_path, data |-> diff_img]
               IN  IF outcome = "saved"
                   THEN /\ files' = Append(files, local)
                        /\ work' = [work EXCEPT !.diff_file = Some(local)]
                        /\ cpc' = "saved"
                        /\ cret' = cret
                   ELSE /\ files' = files
                        /\ work' = work
                        /\ cpc' = "done"
                        /\ cret' = Err(<<outcome>>)
       ELSE /\ work' = [work EXCEPT !.diff_image_path = None]
            /\ cpc' = "stored"
            /\ UNCHANGED <<files, cret>>
    /\ UNCHANGED <<compareFrame, reads>>

\* store_diff_image, `put_object()..send().await?`: the upload of the file
\* to the bucket, and the URL returned.
UploadDiffImage ==
    /\ cpc = "saved"
    /\ \E ok \in BOOLEAN :
          IF ok
          THEN /\ files' = Append(files, [work.diff_file.v EXCEPT !.store = "s3"])
               /\ work' = [work EXCEPT !.diff_image_path =
                              Some(DiffImageUrl(storage.bucket_name,
                                                work.diff_file.v.path))]
               /\ cpc' = "stored"
               /\ cret' = cret
          ELSE /\ files' = files
               /\ work' = work
               /\ cpc' = "done"
               /\ cret' = Err(<<"Failed to upload diff image to storage">>)
    /\ UNCHANGED <<compareFrame, reads>>

\* The VisualComparison is built, handed to store_comparison (which only
\* logs it) and returned.
ReturnComparison ==
    /\ cpc = "stored"
    /\ logged' = Append(logged, VisualComparison(request, work))
    /\ cret' = Ok(VisualComparison(request, work))
    /\ cpc' = "done"
    /\ UNCHANGED <<hostVars, runVars, comparator, storage, screenshots, request, work,
                   files, reads, invocations, parked, storing>>

CompareNext ==
    \/ ListObjects
    \/ GetObject
    \/ CollectBody
    \/ DecodeImages
    \/ CompareImages
    \/ StoreDiffImage
    \/ UploadDiffImage
    \/ ReturnComparison

CompareSpec == CompareInit /\ [][CompareNext]_vars

\* -------------------------------- comparisons and captures side by side

\* Largest number of comparisons requested of one visual engine.
MaxInvocations == 2

\* Largest number of screenshots stored while the comparisons run.
MaxStored == 1

\* A request for the comparison of two stored screenshots.
CompareRequests ==
    { [baseline_screenshot_id |-> b, current_screenshot_id |-> c,
       threshold |-> DefaultThreshold] : b \in {IdA, IdB}, c \in {IdA, IdB} }

\* The visual engine holds two screenshots of one pixel and has received its
\* first request.
RepeatInit ==
    /\ RunnerIdle
    /\ HostIdle
    /\ comparator \in Comparators
    /\ storage = [bucket_name |-> DefaultBucket, keys |-> TwoKeys(UrlPlain, UrlPlain)]
    /\ Listed(storage.keys)
    /\ screenshots \in ImagesOfSize(1, 1) \X ImagesOfSize(1, 1)
    /\ request \in CompareRequests
    /\ cpc = "request"
    /\ work = NoWork
    /\ files = <<>>
    /\ logged = <<>>
    /\ cret = NotReturned
    /\ reads = <<>>
    /\ invocations = 1
    /\ parked = <<>>
    /\ storing = NotStoring

\* The locals of the call of compare_screenshots whose steps are taken.
Locals ==
    [request |-> request, cpc |-> cpc, work |-> work, cret |-> cret, reads |-> reads]

\* The handler compare_screenshots is called again, with the comparator and
\* the storage of the same AppState, while the calls made before may still
\* be in progress: the server runs its handlers concurrently.
NextRequest ==
    /\ invocations < MaxInvocations
    /\ parked' = Append(parked, Locals)
    /\ request' \in CompareRequests
    /\ cpc' = "request"
    /\ work' = NoWork
    /\ cret' = NotReturned
    /\ reads' = <<>>
    /\ invocations' = invocations + 1
    /\ UNCHANGED <<hostVars, runVars, comparator, storage, screenshots, files, logged,
                   storing>>

\* The runtime goes on with another call in progress.
Resume ==
    /\ \E k \in 1..Len(parked) :
          /\ parked[k].cpc # "done"
          /\ request' = parked[k].request
          /\ cpc' = parked[k].cpc
          /\ work' = parked[k].work
          /\ cret' = parked[k].cret
          /\ reads' = parked[k].reads
          /\ parked' = [parked EXCEPT ![k] = Locals]
    /\ UNCHANGED <<hostVars, runVars, comparator, storage, screenshots, files, logged,
                   invocations, storing>>

\* The URLs of the screenshots stored meanwhile, and their bytes: an image,
\* or bytes that are no image.
StoredUrls == {UrlPlain, <<"http://">> \o IdA}

StoredData == {Image(1, 1, [c \in Coords(1, 1) |-> Black]), NoImage}

\* The ids of the screenshots in the bucket.
StoredIds ==
    { id \in ScreenshotIds : \E k \in 1..Len(storage.keys) :
                                 Contains(storage.keys[k], <<"/">> \o id \o <<".png">>) }

\* The handler capture_screenshots calls store_screenshot: a new Uuid, the
\* key, and the local file written (`save_screenshot_locally(..).await?`).
\* The local copy is what `storing` holds until the upload; the comparisons
\* read screenshots from the bucket only.
StoreScreenshot ==
    /\ storing.pc = "idle"
    /\ Len(storage.keys) < Len(TwoKeys(UrlPlain, UrlPlain)) + MaxStored
    /\ \E url \in StoredUrls, data \in StoredData, date \in Dates,
          screenshot_id \in ScreenshotIds \ StoredIds, saved \in BOOLEAN :
          storing' = IF saved
                     THEN [pc |-> "saved",
                           key |-> ScreenshotKey(date, url, "1920x1080", screenshot_id),
                           data |-> data]
                     ELSE NotStoring
    /\ UNCHANGED <<hostVars, runVars, comparator, storage, screenshots, request, cpc,
                   work, files, logged, cret, reads, invocations, parked>>

\* The list with one more element, after the first n.
InsertedAfter(list, n, e) == SubSeq(list, 1, n) \o <<e>> \o SubSeq(list, n + 1, Len(list))

\* store_screenshot, `put_object()..send().await`: the object is in the
\* bucket unless the upload failed, which is only logged; the bytes are
\* decoded after it.
UploadScreenshot ==
    /\ storing.pc = "saved"
    /\ \E uploaded \in BOOLEAN :
          LET before == KeysBefore(storage.keys, storing.key)
          IN  /\ storage' = IF uploaded
                            THEN [storage EXCEPT !.keys =
                                     InsertedAfter(@, before, storing.key)]
                            ELSE storage
              /\ screenshots' = IF uploaded
                                THEN InsertedAfter(screenshots, before, storing.data)
                                ELSE screenshots
    /\ storing' = NotStoring
    /\ UNCHANGED <<hostVars, runVars, comparator, request, cpc, work, files, logged,
                   cret, reads, invocations, parked>>

RepeatNext ==
    \/ ListObjects
    \/ GetObject
    \/ CollectBody
    \/ DecodeImages
    \/ CompareImages
    \/ StoreDiffImage
    \/ UploadDiffImage
    \/ ReturnComparison
    \/ NextRequest
    \/ Resume
    \/ StoreScreenshot
    \/ UploadScreenshot

RepeatSpec == RepeatInit /\ [][RepeatNext]_vars

\* ------------------------------------------- one test case with its actions

\* Characters the locator dispatch treats differently, and an ordinary one.
LocatorChars == {"/", "#", ".", "a"}

LocatorStrings == UNION { [1..n -> LocatorChars] : n \in 0..MaxLen }

\* A number of milliseconds one above u64::MAX.
TooManyMs ==
    [U64MaxDigits EXCEPT ![Len(U64MaxDigits)] = "6"]

\* The values of an action: none, a number of milliseconds, a scroll
\* keyword, a URL, a number that is no u64.
ActionValues ==
    {None, Some(<<"5">>), Some(<<"t", "o", "p">>), Some(Txt_Url),
     Some(TooManyMs)}

ActionWaits == {None, Some(0), Some(250)}

\* An action of any kind, with or without target, value and declared wait.
ActionInputs ==
    { TestAction(ty, target, value, wait) :
          ty \in ActionTypes, target \in {<<>>, Sel_Id},
          value \in ActionValues, wait \in ActionWaits }

\* The actions that follow the first one of a case.
FollowUps == {<<>>, <<Click(Sel_Css)>>, <<TestAction("Wait", <<>>, None, None)>>}

\* One test case: any action and what follows it, then a placeholder
\* assertion; or the lookup of any target string by a Click and then by
\* the ElementExists assertion.
ActionCases ==
    { TestCase(1, "FormSubmission", None, None, <<a>> \o f) :
          a \in ActionInputs, f \in FollowUps }
    \cup
    { TestCase(1, "ElementExists", Some(t), None, <<Click(t)>>) :
          t \in LocatorStrings }

\* ExecutionConfig with and without a default post-action wait.
ActionConfigs ==
    { [timeout_ms |-> MaxTimeoutMs, wait_after_action_ms |-> w,
       screenshot_on_failure |-> s] :
          w \in {0, DefaultWaitAfterActionMs}, s \in BOOLEAN }

\* A run of a one-case suite at the head of the case loop: the session is
\* open, the page is loaded.
ActionInit ==
    /\ config \in ActionConfigs
    /\ test_cases \in { <<tc>> : tc \in ActionCases }
    /\ pc = "loop"
    /\ execution = NewExecution(1)
    /\ client = "open"
    /\ idx = 0
    /\ test_result = NoResult
    /\ aidx = 0
    /\ step = 0
    /\ attempts = 0
    /\ trace = Tagged(0, 0, SessionReadyCalls)
    /\ now = Len(SessionReadyCalls) + 1
    /\ runner_ret = NotReturned
    /\ ret = NotReturned
    /\ answers = NoAnswer
    /\ VisualIdle
    /\ HostIdle

ActionNext ==
    \/ BeginCase
    \/ RunAction
    \/ RunAssertion
    \/ FailureShot
    \/ FinishCase
    \/ CloseSession
    \/ ExecutorReturn

ActionSpec == ActionInit /\ [][ActionNext]_vars

\* ------------------------------------------------ the page-readiness wait

\* Largest number of polls of the readiness signal.
MaxPolls == 2

\* Timeouts from 0 up to MaxPolls poll intervals and a half, in steps of
\* half an interval.
PollTimeouts == { k * (PollIntervalMs \div 2) : k \in 0..(2 * MaxPolls + 1) }

PollConfigs ==
    { [timeout_ms |-> t, wait_after_action_ms |-> DefaultWaitAfterActionMs,
       screenshot_on_failure |-> s] : t \in PollTimeouts, s \in BOOLEAN }

\* A run of a suite of at most one case, from its start.
PollInit ==
    /\ config \in PollConfigs
    /\ test_cases \in SuitesOfLen(0) \cup SuitesOfLen(1)
    /\ pc = "new"
    /\ execution = NewExecution(0)
    /\ client = "none"
    /\ idx = 0
    /\ test_result = NoResult
    /\ aidx = 0
    /\ step = 0
    /\ attempts = 0
    /\ trace = <<>>
    /\ now = 0
    /\ runner_ret = NotReturned
    /\ ret = NotReturned
    /\ answers = NoAnswer
    /\ VisualIdle
    /\ HostIdle

PollSpec == PollInit /\ [][Next]_vars

\* ------------------------------------------------- concurrent suite runs

\* Largest number of suite runs in progress at once.
MaxRuns == 2

\* The sizes of the suites of the concurrent runs: the order and number of
\* the cases of one run are the subject of the single run above.
RunSuiteSizes == {0, 1}

\* The case at position i of the suite of a concurrent run: one action of
\* three awaits (find, click, the post-action sleep) and an assertion.
RunCase(i) == TestCase(i, "ElementExists", Some(Sel_Id), None, <<Click(Sel_Css)>>)

\* A run of execute_test_suite on a suite of n cases, before it connects:
\* its locals `execution` and `client` (0: no session yet), the index of
\* the case the loop is at, the attempts of its readiness wait, and inside
\* execute_test_case the action it is at and the calls that action or the
\* assertion has issued so far.
NewRun(n) ==
    [pc |-> "start", total |-> n, client |-> 0, idx |-> 0, attempts |-> 0,
     aidx |-> 0, step |-> 0, execution |-> NewExecution(n), ret |-> NotReturned]

\* Mutant of SessionOf: the session the runs act on is the one connected
\* last, as if the handle were a field shared by the runs.
SessionOf_LastConnected(rs, ss, r) == Len(ss)

\* The session a run acts on: its local `client`, the handle its own call
\* of start_browser_session returned.
SessionOf(rs, ss, r) == rs[r].client

\* A call by run r, for its case i (0: the suite) and the action n of that
\* case (0: the assertion, or no case), on session s and the answer of the
\* browser; a close consumes the session, closed gracefully or not.
IssueCall(ss, s, r, i, n, op, answer) ==
    [ss EXCEPT ![s].calls = Append(@, [run |-> r, case |-> i, action |-> n,
                                       op |-> op, answer |-> answer]),
               ![s].state = IF op # "close" THEN @
                            ELSE IF answer = "error" THEN "close_failed"
                            ELSE "closed"]

\* The result of case i as the loop sees it.
CaseResult(i, status) == [id |-> i, test_case_id |-> i, status |-> status]

\* start_browser_session: ClientBuilder::connect gives the run a session of
\* its own, or fails.
RunConnect(r) ==
    /\ runs[r].pc = "start"
    /\ \E ok \in BOOLEAN :
          IF ok
          THEN /\ sessions' = Append(sessions,
                                     [owner |-> r, state |-> "open", calls |-> <<>>])
               /\ runs' = [runs EXCEPT ![r].client = Len(sessions) + 1,
                                       ![r].pc = "window"]
          ELSE /\ sessions' = sessions
               /\ runs' = [runs EXCEPT
                              ![r].execution = SessionStartFailed(@).v,
                              ![r].ret = SessionStartFailed(runs[r].execution),
                              ![r].pc = "returned"]
    /\ UNCHANGED <<runVars, visualVars, service, capture>>

\* start_browser_session: set_window_size on the run's client.
RunSetWindow(r) ==
    /\ runs[r].pc = "window"
    /\ \E ok \in BOOLEAN :
          /\ sessions' = IssueCall(sessions, SessionOf(runs, sessions, r), r, 0, 0,
                                   "set_window_size", IF ok THEN "ok" ELSE "error")
          /\ runs' = IF ok THEN [runs EXCEPT ![r].pc = "goto"]
                     ELSE [runs EXCEPT
                              ![r].execution = SessionStartFailed(@).v,
                              ![r].ret = SessionStartFailed(runs[r].execution),
                              ![r].pc = "returned"]
    /\ UNCHANGED <<runVars, visualVars, service, capture>>

\* The initial navigation on the run's client; on failure the status is
\* set to Failed.
RunGoto(r) ==
    /\ runs[r].pc = "goto"
    /\ \E ok \in BOOLEAN :
          /\ sessions' = IssueCall(sessions, SessionOf(runs, sessions, r), r, 0, 0,
                                   "goto", IF ok THEN "ok" ELSE "error")
          /\ runs' = IF ok THEN [runs EXCEPT ![r].pc = "page_load"]
                     ELSE [runs EXCEPT ![r].execution = NavigationFailed(@).v,
                                       ![r].pc = "goto_failed"]
    /\ UNCHANGED <<runVars, visualVars, service, capture>>

\* The initial navigation failed: the run closes its client and returns.
RunGotoFailed(r) ==
    /\ runs[r].pc = "goto_failed"
    /\ \E ok \in BOOLEAN :
          sessions' = IssueCall(sessions, SessionOf(runs, sessions, r), r, 0, 0,
                                "close", IF ok THEN "ok" ELSE "error")
    /\ runs' = [runs EXCEPT ![r].ret = Ok(runs[r].execution),
                            ![r].pc = "returned"]
    /\ UNCHANGED <<runVars, visualVars, service, capture>>

\* What the polls of the concurrent runs are answered; a poll that fails
\* takes the path of one that finds the page not ready.
RunPollAnswers == {"ready", "not ready"}

\* wait_for_page_load on the run's client: one poll of document.readyState.
RunPagePoll(r) ==
    /\ runs[r].pc = "page_load"
    /\ runs[r].attempts < MaxAttempts(config)
    /\ \E answer \in RunPollAnswers :
          /\ sessions' = IssueCall(sessions, SessionOf(runs, sessions, r), r, 0, 0,
                                   "ready_state", answer)
          /\ runs' = [runs EXCEPT
                         ![r].pc = IF answer = "ready" THEN "loop" ELSE "page_sleep"]
    /\ UNCHANGED <<runVars, visualVars, service, capture>>

\* wait_for_page_load: the sleep of the poll interval after a poll that did
\* not find the page ready; no call on the session.
RunPageSleep(r) ==
    /\ runs[r].pc = "page_sleep"
    /\ runs' = [runs EXCEPT ![r].attempts = @ + 1, ![r].pc = "page_load"]
    /\ UNCHANGED <<runVars, visualVars, sessions, service, capture>>

\* wait_for_page_load: the attempts are used up; a warning, and Ok.
RunPageLoadTimeout(r) ==
    /\ runs[r].pc = "page_load"
    /\ runs[r].attempts >= MaxAttempts(config)
    /\ runs' = [runs EXCEPT ![r].pc = "loop"]
    /\ UNCHANGED <<runVars, visualVars, sessions, service, capture>>

\* The run is inside execute_test_case, or at the head of the loop with a
\* case to execute.
InCase(r) ==
    \/ runs[r].pc = "case"
    \/ /\ runs[r].pc = "loop"
       /\ LoopContinues(runs[r].execution, runs[r].idx, runs[r].total)

\* execute_test_case returned a result of the given status: the loop body
\* counts and pushes it and moves to the next case.
Recorded(r, status) ==
    [runs EXCEPT ![r].execution =
                     RecordResult(@, CaseResult(runs[r].idx + 1, status)),
                 ![r].idx = @ + 1,
                 ![r].aidx = 0,
                 ![r].step = 0,
                 ![r].pc = "loop"]

\* An action or the assertion of the run's case returned an error: the
\* result is marked Error, and the failure screenshot is taken next if the
\* option is on.
RunCaseFailed(r) ==
    IF config.screenshot_on_failure
    THEN [runs EXCEPT ![r].step = 0, ![r].pc = "failure_shot"]
    ELSE Recorded(r, "Error")

\* execute_test_case on the run's client: the next call of the action the
\* case is at, one await of execute_action.
RunCaseAction(r) ==
    /\ InCase(r)
    /\ runs[r].aidx < Len(RunCase(runs[r].idx + 1).actions)
    /\ LET action == RunCase(runs[r].idx + 1).actions[runs[r].aidx + 1]
           calls == execute_action(config, action, 0).calls
       IN  IF calls = <<>>
           THEN /\ sessions' = sessions
                /\ runs' = RunCaseFailed(r)
           ELSE \E ok \in {TRUE} \cup { b \in {FALSE} : CanFail(calls[runs[r].step + 1]) } :
                   /\ sessions' = IssueCall(sessions, SessionOf(runs, sessions, r), r,
                                            runs[r].idx + 1, runs[r].aidx + 1,
                                            calls[runs[r].step + 1].op,
                                            IF ok THEN "ok" ELSE "error")
                   /\ runs' = IF ~ok THEN RunCaseFailed(r)
                              ELSE IF runs[r].step + 1 = Len(calls)
                              THEN [runs EXCEPT ![r].aidx = @ + 1, ![r].step = 0,
                                                ![r].pc = "case"]
                              ELSE [runs EXCEPT ![r].step = @ + 1, ![r].pc = "case"]
    /\ UNCHANGED <<runVars, visualVars, service, capture>>

\* The calls the assertion of run r has issued so far are the first calls
\* of the given sequence, with the same answers.
RunIssued(r, calls) ==
    LET log == sessions[SessionOf(runs, sessions, r)].calls
    IN  /\ Len(calls) >= runs[r].step
        /\ \A j \in 1..runs[r].step :
              LET c == log[Len(log) - runs[r].step + j]
              IN  c.op = calls[j].op /\ (c.answer = "ok") = calls[j].ok

\* execute_test_case on the run's client: the next call of the assertion of
\* the case, one await of execute_test_assertion; after the last, the
\* result of the case.
RunCaseAssertion(r) ==
    /\ InCase(r)
    /\ runs[r].aidx = Len(RunCase(runs[r].idx + 1).actions)
    /\ \E page \in PageAnswers(RunCase(runs[r].idx + 1)) :
          LET out == execute_test_assertion(RunCase(runs[r].idx + 1), page)
              n == runs[r].step
          IN  /\ RunIssued(r, out.calls)
              /\ Len(out.calls) > n \/ out.calls = <<>>
              /\ sessions' = IF out.calls = <<>> THEN sessions
                             ELSE IssueCall(sessions, SessionOf(runs, sessions, r), r,
                                            runs[r].idx + 1, 0, out.calls[n + 1].op,
                                            IF out.calls[n + 1].ok THEN "ok" ELSE "error")
              /\ runs' = IF Len(out.calls) > n + 1
                         THEN [runs EXCEPT ![r].step = @ + 1, ![r].pc = "case"]
                         ELSE IF ~out.res.ok THEN RunCaseFailed(r)
                         ELSE Recorded(r, IF out.res.v.passed THEN "Passed" ELSE "Failed")
    /\ UNCHANGED <<runVars, visualVars, service, capture>>

\* execute_test_case on the run's client: the failure screenshot, then the
\* Error result of the case.
RunFailureShot(r) ==
    /\ runs[r].pc = "failure_shot"
    /\ \E callOk \in BOOLEAN :
          sessions' = IssueCall(sessions, SessionOf(runs, sessions, r), r,
                                runs[r].idx + 1,
                                IF runs[r].aidx < Len(RunCase(runs[r].idx + 1).actions)
                                THEN runs[r].aidx + 1 ELSE 0,
                                "screenshot", IF callOk THEN "ok" ELSE "error")
    /\ runs' = Recorded(r, "Error")
    /\ UNCHANGED <<runVars, visualVars, service, capture>>

\* After the loop: close_browser_session on the run's client, completion.
RunClose(r) ==
    /\ runs[r].pc = "loop"
    /\ ~LoopContinues(runs[r].execution, runs[r].idx, runs[r].total)
    /\ \E ok \in BOOLEAN :
          sessions' = IssueCall(sessions, SessionOf(runs, sessions, r), r, 0, 0,
                                "close", IF ok THEN "ok" ELSE "error")
    /\ runs' = [runs EXCEPT ![r].execution = Completed(@, now).v,
                            ![r].ret = Completed(runs[r].execution, now),
                            ![r].pc = "returned"]
    /\ UNCHANGED <<runVars, visualVars, service, capture>>

\* The host has called execute_test_suite once per run, each on its suite.
ConcurrentInit ==
    /\ RunnerAtRest
    /\ config = [DefaultConfig EXCEPT !.timeout_ms = MaxTimeoutMs]
    /\ VisualIdle
    /\ ServiceIdle
    /\ CaptureIdle
    /\ runs \in [1..MaxRuns -> { NewRun(n) : n \in RunSuiteSizes }]
    /\ sessions = <<>>

\* Any run that has not returned takes its next step: every await of a run
\* is a point where another run may proceed.
ConcurrentNext ==
    \E r \in 1..MaxRuns :
        \/ RunConnect(r)
        \/ RunSetWindow(r)
        \/ RunGoto(r)
        \/ RunGotoFailed(r)
        \/ RunPagePoll(r)
        \/ RunPageSleep(r)
        \/ RunPageLoadTimeout(r)
        \/ RunCaseAction(r)
        \/ RunCaseAssertion(r)
        \/ RunFailureShot(r)
        \/ RunClose(r)

ConcurrentSpec == ConcurrentInit /\ [][ConcurrentNext]_vars

\* ------------------------------------------- the configuration endpoints

\* Largest number of requests the service has answered.
MaxRequests == 3

\* The configurations a client may post.
RequestedConfigs == Configs \cup {DefaultConfig}

\* TestExecutor::get_config and TestExecutor::update_config
get_config(executor) == executor.config

update_config(executor, cfg) == [executor EXCEPT !.config = cfg]

\* The State extractor of a handler: a clone of the AppState the router was
\* built with.
HandlerState(app) == [executor |-> [config |-> app.config]]

\* One more answered request in the log of the service.
Served(app, kind, requested, cfg) ==
    [app EXCEPT !.served = Append(@, [kind |-> kind, requested |-> requested,
                                      config |-> cfg])]

\* POST /config: update_config on the handler's own `mut state`, answered
\* with that state's configuration; the state is dropped with the handler.
UpdateConfig ==
    /\ Len(service.served) < MaxRequests
    /\ \E cfg \in RequestedConfigs :
          LET state == HandlerState(service)
              updated == update_config(state.executor, cfg)
          IN  service' = Served(service, "update", Some(cfg), get_config(updated))
    /\ UNCHANGED <<runVars, visualVars, runs, sessions, capture>>

\* GET /config
GetConfig ==
    /\ Len(service.served) < MaxRequests
    /\ LET state == HandlerState(service)
       IN  service' = Served(service, "get", None, get_config(state.executor))
    /\ UNCHANGED <<runVars, visualVars, runs, sessions, capture>>

\* POST /execute: the run is created with TestRunner::new(config.clone()).
ExecuteSuite ==
    /\ Len(service.served) < MaxRequests
    /\ LET state == HandlerState(service)
       IN  \E webdriverUp \in BOOLEAN :
              service' = Served(service, "execute", None,
                                TestRunner_new(get_config(state.executor),
                                               webdriverUp).v)
    /\ UNCHANGED <<runVars, visualVars, runs, sessions, capture>>

\* The service as main() starts it: ExecutionConfig::default().
ConfigInit ==
    /\ RunnerIdle
    /\ VisualIdle
    /\ RunsIdle
    /\ CaptureIdle
    /\ ServiceIdle

ConfigNext == UpdateConfig \/ GetConfig \/ ExecuteSuite

ConfigSpec == ConfigInit /\ [][ConfigNext]_vars

\* --------------------------------------- the real screenshot capture

\* capture_real_screenshot: the pause before the screenshot; and
\* capture_mock_screenshot: the pause when no wait is requested.
SettleMs == 1000

MockDelayMs == 500

\* The additional waits a capture may be requested with.
CaptureWaits == {None, Some(0), Some(250)}

\* shared::Viewport (the device name carries no behaviour)
Viewport(width, height) == [width |-> width, height |-> height]

\* The viewports a capture may be requested with: two of the handler's
\* defaults, and viewports too narrow or too low for the boxes of the mock
\* screenshot.
CaptureViewports ==
    {Viewport(1920, 1080), Viewport(375, 667), Viewport(12, 1080),
     Viewport(14, 1080), Viewport(40, 1080), Viewport(1920, 10)}

\* The calls of capture_real_screenshot on its client that end the capture
\* through `?` when they fail, in order.
CaptureSteps == <<"set_window_size", "goto", "wait_for_body", "screenshot">>

\* A call of the capture and its answer, or a pause.
CaptureCall(op, ok) == [op |-> op, ok |-> ok, ms |-> 0]

CapturePause(ms) == [op |-> "sleep", ok |-> TRUE, ms |-> ms]

\* capture_mock_screenshot: "Simulate network delay"
MockCalls(wait_ms) ==
    <<CapturePause(IF wait_ms.some THEN wait_ms.v ELSE MockDelayMs)>>

\* add_mock_elements: box_width and box_height
BoxWidth(viewport) == viewport.width \div 4

BoxHeight(viewport) == viewport.height \div 6

\* add_mock_elements, the u32 subtractions of the content boxes that go
\* below zero: `viewport.width - box_width - 10` and
\* `viewport.height - box_height - 10`.
XUnderflows(viewport) == viewport.width - BoxWidth(viewport) < 10

YUnderflows(viewport) == viewport.height - BoxHeight(viewport) < 10

\* add_mock_elements, `if x > 0 && y > 0`: x and y are the smaller of a
\* positive number and the difference above, which is a large positive
\* number where the subtraction wrapped around.
BoxDrawn(viewport) ==
    /\ XUnderflows(viewport) \/ viewport.width - BoxWidth(viewport) - 10 > 0
    /\ YUnderflows(viewport) \/ viewport.height - BoxHeight(viewport) - 10 > 0

\* add_mock_elements, `Rect::at(x, y).of_size(box_width - 10, box_height)`:
\* the subtraction goes below zero, or the rectangle has no width or no
\* height, which of_size refuses with a panic.
SizeUnderflows(viewport) == BoxDrawn(viewport) /\ BoxWidth(viewport) < 10

EmptyBox(viewport) ==
    BoxDrawn(viewport) /\ (BoxWidth(viewport) = 10 \/ BoxHeight(viewport) = 0)

\* What create_mock_screenshot_with_overlay can do for a viewport: return
\* the PNG, fail to encode it, or panic in add_mock_elements. A u32
\* subtraction that goes below zero panics in a build with overflow checks
\* and wraps around in a build without them, where the drawing goes on with
\* the wrapped value.
MockOutcomes(viewport) ==
    IF EmptyBox(viewport) THEN {"panic"}
    ELSE IF XUnderflows(viewport) \/ YUnderflows(viewport) \/ SizeUnderflows(viewport)
    THEN {"panic", "ok", "Failed to encode mock image as PNG"}
    ELSE {"ok", "Failed to encode mock image as PNG"}

\* capture_screenshot has called capture_real_screenshot.
CaptureInit ==
    /\ RunnerIdle
    /\ VisualIdle
    /\ RunsIdle
    /\ ServiceIdle
    /\ \E v \in CaptureViewports, w \in CaptureWaits :
          capture = [pc |-> "connect", viewport |-> v, wait_ms |-> w,
                     session |-> "none", calls |-> <<>>, ret |-> NotReturned]

\* ClientBuilder::connect(..).await?
CaptureConnect ==
    /\ capture.pc = "connect"
    /\ \E ok \in BOOLEAN :
          capture' = [capture EXCEPT
                         !.calls = Append(@, CaptureCall("connect", ok)),
                         !.session = IF ok THEN "open" ELSE "none",
                         !.pc = IF ok THEN CaptureSteps[1] ELSE "fallback"]
    /\ UNCHANGED <<runVars, visualVars, runs, sessions, service>>

\* What follows a call of CaptureSteps that succeeded: the next call; after
\* the wait for the body, the additional wait if one is requested and the
\* wait for network idle otherwise; after the screenshot, the close.
AfterCaptureStep(n, wait_ms) ==
    IF CaptureSteps[n] = "wait_for_body"
    THEN IF wait_ms.some THEN "additional_wait" ELSE "settle"
    ELSE IF n < Len(CaptureSteps) THEN CaptureSteps[n + 1]
    ELSE "close"

\* One of the calls followed by `?`: on failure the function returns the
\* error at once and its client goes out of scope.
CaptureStep ==
    /\ \E n \in 1..Len(CaptureSteps) :
          /\ capture.pc = CaptureSteps[n]
          /\ \E ok \in BOOLEAN :
                capture' = [capture EXCEPT
                    !.calls = Append(@, CaptureCall(CaptureSteps[n], ok)),
                    !.session = IF ok THEN @ ELSE "dropped",
                    !.pc = IF ok THEN AfterCaptureStep(n, capture.wait_ms)
                           ELSE "fallback"]
    /\ UNCHANGED <<runVars, visualVars, runs, sessions, service>>

\* "Additional wait if specified": sleep(wait_time).await
CaptureWait ==
    /\ capture.pc = "additional_wait"
    /\ capture' = [capture EXCEPT
                      !.calls = Append(@, CapturePause(capture.wait_ms.v)),
                      !.pc = "settle"]
    /\ UNCHANGED <<runVars, visualVars, runs, sessions, service>>

\* "Wait for network idle": sleep(1000).await
CaptureSettle ==
    /\ capture.pc = "settle"
    /\ capture' = [capture EXCEPT
                      !.calls = Append(@, CapturePause(SettleMs)),
                      !.pc = "screenshot"]
    /\ UNCHANGED <<runVars, visualVars, runs, sessions, service>>

\* "Close the browser session": a failure is only logged.
CaptureClose ==
    /\ capture.pc = "close"
    /\ \E ok \in BOOLEAN :
          capture' = [capture EXCEPT
                         !.calls = Append(@, CaptureCall("close", ok)),
                         !.session = "closed",
                         !.pc = "decode"]
    /\ UNCHANGED <<runVars, visualVars, runs, sessions, service>>

\* "Decode base64 screenshot", then Ok to capture_screenshot, which returns
\* it; a failure goes to the fallback.
CaptureDecode ==
    /\ capture.pc = "decode"
    /\ \E ok \in BOOLEAN :
          capture' = [capture EXCEPT
                         !.pc = IF ok THEN "done" ELSE "fallback",
                         !.ret = IF ok THEN Ok(<<"real screenshot">>) ELSE @]
    /\ UNCHANGED <<runVars, visualVars, runs, sessions, service>>

\* capture_screenshot, Err arm: capture_mock_screenshot, whose pause ends;
\* the mock screenshot is created and returned, unless its creation
\* panics, and then capture_screenshot never returns.
CaptureMock ==
    /\ capture.pc = "fallback"
    /\ \E outcome \in MockOutcomes(capture.viewport) :
          capture' = [capture EXCEPT
                         !.calls = @ \o MockCalls(capture.wait_ms),
                         !.ret = CASE outcome = "ok" -> Ok(<<"mock screenshot">>)
                                   [] outcome = "panic" -> @
                                   [] OTHER -> Err(<<outcome>>),
                         !.pc = IF outcome = "panic" THEN "panicked" ELSE "done"]
    /\ UNCHANGED <<runVars, visualVars, runs, sessions, service>>

\* A client that went out of scope without close: the WebDriver library may
\* end its session in the background, at a time of its own and without
\* anything waiting for it.
DroppedShutdown ==
    /\ capture.session = "dropped"
    /\ capture' = [capture EXCEPT
                      !.calls = Append(@, CaptureCall("background close", TRUE)),
                      !.session = "closed"]
    /\ UNCHANGED <<runVars, visualVars, runs, sessions, service>>

CaptureNext ==
    \/ CaptureConnect
    \/ CaptureStep
    \/ CaptureWait
    \/ CaptureSettle
    \/ CaptureClose
    \/ CaptureDecode
    \/ CaptureMock
    \/ DroppedShutdown

CaptureSpec == CaptureInit /\ [][CaptureNext]_vars

\* ------------------------------------------------------------- properties

\* The run has returned to the caller of TestExecutor::execute_test_suite.
Returned == pc = "done"

\* Some call of the given operations was answered with an error.
SomeCallFailed(ops) ==
    \E k \in 1..Len(trace) : trace[k].call.op \in ops /\ ~trace[k].call.ok

\* Number of calls of the given operation so far.
CallCount(op) == Cardinality({k \in 1..Len(trace) : trace[k].call.op = op})

AcquisitionFailed == SomeCallFailed({"connect", "set_window_size"})
NavigationFailedHere ==
    \E k \in 1..Len(trace) :
        trace[k].case = 0 /\ trace[k].call.op = "goto" /\ ~trace[k].call.ok
SessionOpened ==
    \E k \in 1..Len(trace) : trace[k].call.op = "connect" /\ trace[k].call.ok

\* The initial navigation succeeded: the run reached the case loop.
LoopEntered ==
    \E k \in 1..Len(trace) :
        trace[k].case = 0 /\ trace[k].call.op = "goto" /\ trace[k].call.ok

CounterSum(exec) == exec.passed_tests + exec.failed_tests + exec.skipped_tests

NoCaseAttempted == \A k \in 1..Len(trace) : trace[k].case = 0

\* C1 as claimed: in every returned execution whose status is Completed or
\* Failed, total_tests is the number of results and the counters add up to it.
C1_TerminalCountsMatch ==
    (Returned /\ ret.ok /\ ret.v.status \in {"Completed", "Failed"})
        => /\ ret.v.total_tests = Len(ret.v.test_results)
           /\ CounterSum(ret.v) = ret.v.total_tests

\* C1 amended: in every returned execution that finished the case loop
\* (completed_at set), total_tests is the number of results, which is the
\* number of supplied cases, and the counters add up to it; an execution
\* returned without completed_at holds no result and zero counters.
C1_CompletedCountsMatch ==
    (Returned /\ ret.ok)
        => IF ret.v.completed_at.some
           THEN /\ ret.v.total_tests = Len(ret.v.test_results)
                /\ Len(ret.v.test_results) = Len(test_cases)
                /\ CounterSum(ret.v) = ret.v.total_tests
           ELSE /\ Len(ret.v.test_results) = 0
                /\ CounterSum(ret.v) = 0
                /\ ret.v.total_tests = Len(test_cases)

C1_Witness ==
    /\ Returned /\ ret.ok /\ ret.v.completed_at.some
    /\ Len(ret.v.test_results) = 2
    /\ ret.v.total_tests = 2
    /\ ret.v.passed_tests = 1
    /\ ret.v.failed_tests = 1
    /\ \E i \in 1..2 : ret.v.test_results[i].status = "Error"

\* C2: when session acquisition fails (connect or window sizing), the run
\* returns Ok with status Failed, no result and zero counters, and the only
\* calls issued are those of the acquisition: no navigation, action, or
\* assertion.
C2_AcquisitionFailure ==
    AcquisitionFailed
        => /\ pc \in {"returned", "done"}
           /\ runner_ret.ok
           /\ runner_ret.v.status = "Failed"
           /\ Len(runner_ret.v.test_results) = 0
           /\ runner_ret.v.passed_tests = 0
           /\ runner_ret.v.failed_tests = 0
           /\ runner_ret.v.skipped_tests = 0
           /\ \A k \in 1..Len(trace) :
                 trace[k].call.op \in {"connect", "set_window_size"}
           /\ (Returned => ret.ok /\ ret.v = runner_ret.v)

C2_Witness ==
    /\ Returned /\ AcquisitionFailed /\ Len(test_cases) = 2
    /\ client = "none"

\* C3: when the initial navigation fails, the status becomes Failed and
\* the next step of the run is the close of its session, after which the
\* run returns Ok with status Failed, no result and zero counters; the
\* session is released by one close call, the last call of the run, and no
\* test case is attempted.
C3_NavigationFailure ==
    NavigationFailedHere
        => /\ execution.status = "Failed"
           /\ Len(execution.test_results) = 0
           /\ CounterSum(execution) = 0
           /\ NoCaseAttempted
           /\ CallCount("execute_action") = 0
           /\ CallCount("execute_test_assertion") = 0
           /\ IF pc = "goto_failed"
              THEN /\ CallCount("close") = 0
                   /\ trace[Len(trace)].call.op = "goto"
                   /\ client = "open"
              ELSE /\ pc \in {"returned", "done"}
                   /\ runner_ret.ok
                   /\ runner_ret.v = execution
                   /\ CallCount("close") = 1
                   /\ trace[Len(trace)].call.op = "close"
                   /\ client \in {"closed", "close_failed"}

C3_Witness ==
    /\ Returned /\ NavigationFailedHere /\ Len(test_cases) = 2
    /\ client = "closed"

\* C4 as claimed: once the run has returned, a session that was opened has
\* been released by exactly one close call, which is the last call issued;
\* at no time are there two close calls.
C4_ReleasedExactlyOnce ==
    /\ CallCount("close") <= 1
    /\ (CallCount("close") = 1 => trace[Len(trace)].call.op = "close")
    /\ ((pc \in {"returned", "done"} /\ SessionOpened) => CallCount("close") = 1)

\* C5: every run returns Ok(TestExecution), from the runner and from the
\* executor, on every path; and a run that has not returned can always take
\* its next step.
C5_AlwaysReturnsExecution ==
    /\ (pc \in {"returned", "done"} => runner_ret.ok)
    /\ (Returned => ret.ok /\ ret.v = runner_ret.v
                      /\ ret.v.status \in {"Completed", "Failed"})
    /\ (~Returned => ENABLED Next)

C5_Witness ==
    /\ Returned /\ ret.ok
    /\ client = "close_failed"
    /\ Len(ret.v.test_results) = 2
    /\ ret.v.test_results[1].status = "Error"
    /\ ret.v.test_results[2].status = "Failed"
    /\ SomeCallFailed({"screenshot"})
    /\ SomeCallFailed({"ready_state"})

\* The result of test case i: recorded in the execution, or just returned
\* by execute_test_case and about to be recorded.
HasResult(i) ==
    \/ i <= Len(execution.test_results)
    \/ (pc = "case_return" /\ i = idx + 1)

ResultOf(i) ==
    IF i <= Len(execution.test_results) THEN execution.test_results[i]
    ELSE test_result

\* Positions in the trace of the calls of case i.
CallsOfCase(i) == {k \in 1..Len(trace) : trace[k].case = i}

\* Case i had a failing action.
ActionFailedIn(i) ==
    \E k \in CallsOfCase(i) :
        trace[k].call.op = "execute_action" /\ ~trace[k].call.ok

\* C6: a test case with a failing action ends with status Error and an error
\* message, its failing action is the last one invoked (actions 1..n were
\* invoked, n being the failing one), the evaluator was never invoked for it,
\* and its assertions list is empty.
C6_ActionFailureIsError ==
    \A i \in 1..Len(test_cases) :
        (HasResult(i) /\ ActionFailedIn(i))
            => /\ ResultOf(i).status = "Error"
               /\ ResultOf(i).error_message.some
               /\ ResultOf(i).completed_at.some
               /\ Len(ResultOf(i).assertions) = 0
               /\ \A k \in CallsOfCase(i) :
                     trace[k].call.op # "execute_test_assertion"
               /\ \A k \in CallsOfCase(i) :
                     (trace[k].call.op = "execute_action" /\ ~trace[k].call.ok)
                         => \A m \in CallsOfCase(i) :
                               m > k => /\ trace[m].action = trace[k].action
                                        /\ trace[m].call.op # "execute_action"

C6_Witness ==
    /\ Returned
    /\ Len(test_cases) >= 1
    /\ Len(test_cases[1].actions) = 2
    /\ ActionFailedIn(1)
    /\ \E k \in CallsOfCase(1) :
          trace[k].call.op = "execute_action" /\ ~trace[k].call.ok
              /\ trace[k].action = 1
    /\ ResultOf(1).status = "Error"

\* C7: once the case loop is entered, a returned run holds one result per
\* input case, in particular after cases that ended Failed or Error; and
\* while cases remain the loop can always take the next one.
C7_EveryCaseAttempted ==
    /\ (Returned /\ LoopEntered)
           => /\ Len(ret.v.test_results) = Len(test_cases)
              /\ \A i \in 1..Len(test_cases) :
                    \E k \in CallsOfCase(i) :
                        trace[k].call.op \in {"execute_action", "execute_test_assertion"}
    /\ (pc = "loop" /\ idx < Len(test_cases)) => ENABLED BeginCase

C7_Witness ==
    /\ Returned /\ LoopEntered /\ ret.ok
    /\ Len(test_cases) = 2
    /\ Len(ret.v.test_results) = 2
    /\ ret.v.test_results[1].status = "Error"
    /\ ret.v.test_results[2].status = "Passed"

\* C8: the i-th result refers to the i-th input case; the calls of the cases
\* appear in the trace in case order, a case's calls starting only after the
\* results of all earlier cases are completed and recorded; within a case the
\* actions are invoked in declared order and the assertion after all of them.
C8_SequentialInOrder ==
    /\ \A i \in 1..Len(execution.test_results) :
          /\ execution.test_results[i].test_case_id = test_cases[i].id
          /\ execution.test_results[i].completed_at.some
    /\ \A k \in 1..Len(trace) :
          trace[k].case > 0
              => /\ \A j \in 1..(k - 1) : trace[j].case <= trace[k].case
                 /\ \A i \in 1..(trace[k].case - 1) :
                       /\ i <= Len(execution.test_results)
                       /\ execution.test_results[i].completed_at.some
    /\ \A k \in 1..Len(trace) :
          (trace[k].case > 0 /\ trace[k].call.op = "execute_action")
              => /\ trace[k].action
                      = 1 + Cardinality({j \in 1..(k - 1) :
                               /\ trace[j].case = trace[k].case
                               /\ trace[j].call.op = "execute_action"})
                 /\ trace[k].action <= Len(test_cases[trace[k].case].actions)
    /\ \A k \in 1..Len(trace) :
          trace[k].call.op = "execute_test_assertion"
              => /\ Cardinality({j \in 1..(k - 1) :
                        /\ trace[j].case = trace[k].case
                        /\ trace[j].call.op = "execute_action"
                        /\ trace[j].call.ok})
                      = Len(test_cases[trace[k].case].actions)
                 /\ \A j \in (k + 1)..Len(trace) :
                       trace[j].case = trace[k].case
                           => trace[j].call.op # "execute_action"

C8_Witness ==
    /\ Returned /\ ret.ok
    /\ Len(test_cases) = 2
    /\ Len(ret.v.test_results) = 2
    /\ Len(test_cases[1].actions) = 2
    /\ Len(test_cases[2].actions) = 1
    /\ ret.v.test_results[1].status = "Passed"
    /\ ret.v.test_results[2].status = "Failed"

\* C9: a run that iterated its cases ends Failed when failed_tests > 0 and
\* Completed otherwise (so an empty suite ends Completed); the status of the
\* execution is never Pending or Cancelled.
C9_FinalStatus ==
    /\ execution.status \in {"Running", "Completed", "Failed"}
    /\ (pc \in {"returned", "done"} /\ LoopEntered)
           => /\ runner_ret.v.status =
                     IF runner_ret.v.failed_tests > 0 THEN "Failed" ELSE "Completed"
              /\ (Len(test_cases) = 0 => runner_ret.v.status = "Completed")
              /\ runner_ret.v.failed_tests =
                     Cardinality({i \in 1..Len(test_cases) :
                         runner_ret.v.test_results[i].status \in {"Failed", "Error"}})
    /\ (Returned => ret.v.status \in {"Completed", "Failed"})

C9_Witness ==
    /\ Returned /\ ret.ok
    /\ Len(test_cases) = 2
    /\ ret.v.status = "Completed"
    /\ ret.v.passed_tests = 2

\* C10: every step that records a result raises exactly one counter by one,
\* the one of the result's status (Passed: passed_tests; Failed or Error:
\* failed_tests; Skipped: skipped_tests); no step lowers a counter, and a
\* step that records nothing leaves the counters alone.
CounterDelta(f) == execution'[f] - execution[f]

C10_Step ==
    IF Len(execution'.test_results) = Len(execution.test_results) + 1
    THEN LET st == execution'.test_results[Len(execution'.test_results)].status IN
         /\ st \in {"Passed", "Failed", "Error", "Skipped"}
         /\ CounterDelta("passed_tests") = IF st = "Passed" THEN 1 ELSE 0
         /\ CounterDelta("failed_tests") = IF st \in {"Failed", "Error"} THEN 1 ELSE 0
         /\ CounterDelta("skipped_tests") = IF st = "Skipped" THEN 1 ELSE 0
    ELSE /\ Len(execution'.test_results) = Len(execution.test_results)
         /\ CounterDelta("passed_tests") = 0
         /\ CounterDelta("failed_tests") = 0
         /\ CounterDelta("skipped_tests") = 0

C10_OneCounterPerCase == [][C10_Step]_vars

C10_Witness ==
    /\ Returned /\ ret.ok
    /\ Len(test_cases) = 2
    /\ Len(ret.v.test_results) = 2
    /\ ret.v.test_results[1].status = "Error"
    /\ ret.v.test_results[2].status = "Failed"
    /\ ret.v.failed_tests = 2

\* The evaluator was invoked for case i: all its actions succeeded.
EvaluatorInvoked(i) ==
    \E k \in CallsOfCase(i) : trace[k].call.op = "execute_test_assertion"

\* Case i issued a call of the operation, answered as given.
CaseCall(i, op, ok) ==
    \E k \in CallsOfCase(i) : trace[k].call.op = op /\ trace[k].call.ok = ok

HasEq(s) == \E k \in 1..Len(s) : s[k] = "="

\* An ElementAttribute case whose expected value holds no '='.
MalformedAttribute(tc) ==
    /\ tc.test_type = "ElementAttribute"
    /\ tc.expected_value.some
    /\ ~HasEq(tc.expected_value.v)

\* C11 as claimed: every case that reaches the assertion stage ends Passed or
\* Failed with exactly one AssertionResult, a missing target or expected
\* value and a failed lookup included; only a malformed ElementAttribute
\* expected value ends with status Error.
C11_EvaluatorNeverFails ==
    \A i \in 1..Len(test_cases) :
        (HasResult(i) /\ EvaluatorInvoked(i))
            => IF MalformedAttribute(test_cases[i])
               THEN ResultOf(i).status = "Error"
               ELSE /\ ResultOf(i).status \in {"Passed", "Failed"}
                    /\ Len(ResultOf(i).assertions) = 1

ElementKinds == {"ElementExists", "ElementVisible", "ElementText", "ElementAttribute"}

\* C12: for an element-based case whose lookup of the target failed, the
\* result holds exactly one AssertionResult with passed = FALSE whose actual
\* is "Element not found: " followed by the lookup error, and the case ends
\* Failed; an ElementVisible case whose display query failed ends Failed
\* with passed = FALSE and actual "Element visibility: false".
C12_LookupFailureIsFailedAssertion ==
    \A i \in 1..Len(test_cases) :
        (HasResult(i) /\ test_cases[i].test_type \in ElementKinds)
            => /\ CaseCall(i, "find", FALSE)
                    => /\ ResultOf(i).status = "Failed"
                       /\ ResultOf(i).error_message = None
                       /\ Len(ResultOf(i).assertions) = 1
                       /\ ~ResultOf(i).assertions[1].passed
                       /\ ResultOf(i).assertions[1].assertion_type
                              = test_cases[i].test_type
                       /\ ResultOf(i).assertions[1].actual
                              = <<"Element not found: ", "Element not found: ">>
                                    \o test_cases[i].target_element.v
               /\ (test_cases[i].test_type = "ElementVisible"
                      /\ CaseCall(i, "is_displayed", FALSE))
                    => /\ ResultOf(i).status = "Failed"
                       /\ Len(ResultOf(i).assertions) = 1
                       /\ ~ResultOf(i).assertions[1].passed
                       /\ ResultOf(i).assertions[1].actual
                              = <<"Element visibility: ", "false">>

C12_Witness ==
    /\ Returned /\ ret.ok
    /\ test_cases[1].test_type = "ElementAttribute"
    /\ CaseCall(1, "find", FALSE)
    /\ Len(ret.v.test_results) = 1
    /\ ret.v.test_results[1].status = "Failed"
    /\ ret.v.failed_tests = 1

\* C13: an ElementAttribute case with a target whose expected value holds no
\* '=' ends with status Error and an error message, records no
\* AssertionResult, issues no element lookup nor any attribute query, and
\* once recorded is counted in failed_tests.
C13_MalformedAttributeIsError ==
    \A i \in 1..Len(test_cases) :
        (HasResult(i) /\ EvaluatorInvoked(i) /\ MalformedAttribute(test_cases[i])
            /\ test_cases[i].target_element.some)
            => /\ ResultOf(i).status = "Error"
               /\ ResultOf(i).error_message.some
               /\ Len(ResultOf(i).assertions) = 0
               /\ \A k \in CallsOfCase(i) : trace[k].call.op \notin {"find", "attr"}
               /\ CaseCall(i, "execute_test_assertion", FALSE)
               /\ (i <= Len(execution.test_results)
                      => /\ execution.failed_tests >= 1
                         /\ execution.passed_tests < Len(execution.test_results))

C13_Witness ==
    /\ Returned /\ ret.ok
    /\ MalformedAttribute(test_cases[1])
    /\ test_cases[1].target_element.some
    /\ test_cases[1].expected_value.v = <<"a", " ", "a">>
    /\ Len(ret.v.test_results) = 1
    /\ ret.v.test_results[1].status = "Error"
    /\ ret.v.failed_tests = 1
    /\ ret.v.status = "Failed"

\* The texts s is made of once its leading and trailing white space is
\* taken away: the part between its first and its last character that are
\* not white space, the empty text when it has none.
Stripped(s) ==
    { SubSeq(s, i, j) : i \in 1..Len(s), j \in 1..Len(s) } \cup {<<>>}

IsStrippedOf(t, s) ==
    IF \A k \in 1..Len(s) : IsWhite(s[k])
    THEN t = <<>>
    ELSE \E i \in 1..Len(s), j \in 1..Len(s) :
            /\ i <= j
            /\ ~IsWhite(s[i]) /\ ~IsWhite(s[j])
            /\ \A k \in 1..(i - 1) : IsWhite(s[k])
            /\ \A k \in (j + 1)..Len(s) : IsWhite(s[k])
            /\ t = SubSeq(s, i, j)

EqualWhenStripped(a, b) ==
    \E t \in Stripped(a) : IsStrippedOf(t, a) /\ IsStrippedOf(t, b)

\* The single AssertionResult of case i.
AssertionOf(i) == ResultOf(i).assertions[1]

\* C14: an ElementText case whose element was located and whose text was
\* read, and a PageTitle case whose title was read, record one
\* AssertionResult that passed exactly when the text the page answered and
\* the expected value are equal once leading and trailing white space is
\* removed from both; the case ends Passed or Failed accordingly.
C14_TextComparedTrimmed ==
    \A i \in 1..Len(test_cases) :
        LET tc == test_cases[i] IN
        /\ (HasResult(i) /\ tc.test_type = "ElementText"
               /\ CaseCall(i, "find", TRUE) /\ CaseCall(i, "text", TRUE))
              => /\ Len(ResultOf(i).assertions) = 1
                 /\ AssertionOf(i).passed
                       <=> EqualWhenStripped(answers.text.v, tc.expected_value.v)
                 /\ ResultOf(i).status
                       = IF AssertionOf(i).passed THEN "Passed" ELSE "Failed"
        /\ (HasResult(i) /\ tc.test_type = "PageTitle" /\ CaseCall(i, "title", TRUE))
              => /\ Len(ResultOf(i).assertions) = 1
                 /\ AssertionOf(i).passed
                       <=> EqualWhenStripped(answers.title.v, tc.expected_value.v)
                 /\ ResultOf(i).status
                       = IF AssertionOf(i).passed THEN "Passed" ELSE "Failed"

C14_Witness ==
    /\ Returned /\ ret.ok
    /\ test_cases[1].test_type = "PageTitle"
    /\ test_cases[1].expected_value = Some(<<"a">>)
    /\ answers.title = Ok(<<"a", "U+00A0">>)
    /\ Len(ret.v.test_results) = 1
    /\ ret.v.test_results[1].status = "Passed"
    /\ ret.v.test_results[1].assertions[1].actual = <<"a", "U+00A0">>

\* Position of the first '=' of s: no '=' stands before it.
IsFirstEq(s, k) ==
    k \in 1..Len(s) /\ s[k] = "=" /\ \A m \in 1..(k - 1) : s[m] # "="

\* The value of the attribute the page answered, the empty text when the
\* element has no such attribute or the query failed.
AnsweredAttribute == IF answers.attr.v.some THEN answers.attr.v.v ELSE <<>>

\* C15: an ElementAttribute case whose expected value holds '=' and whose
\* element was located queries the attribute named by the text before the
\* first '='; its AssertionResult passed exactly when the element has that
\* attribute with a value equal, character for character, to the text after
\* the first '='; and its actual is the name, '=', and the attribute's value.
C15_AttributeSplitAndExact ==
    \A i \in 1..Len(test_cases) :
        LET tc == test_cases[i] IN
        (HasResult(i) /\ tc.test_type = "ElementAttribute"
            /\ CaseCall(i, "find", TRUE))
            => \E k \in 1..Len(tc.expected_value.v) :
                  LET name == SubSeq(tc.expected_value.v, 1, k - 1)
                      value == SubSeq(tc.expected_value.v, k + 1,
                                      Len(tc.expected_value.v))
                  IN  /\ IsFirstEq(tc.expected_value.v, k)
                      /\ \E c \in CallsOfCase(i) :
                            trace[c].call.op = "attr" /\ trace[c].call.arg = name
                      /\ Len(ResultOf(i).assertions) = 1
                      /\ AssertionOf(i).passed
                            <=> (answers.attr.ok /\ answers.attr.v.some
                                    /\ answers.attr.v.v = value)
                      /\ AssertionOf(i).actual
                            = name \o <<"=">> \o AnsweredAttribute
                      /\ AssertionOf(i).expected = tc.expected_value.v
                      /\ ResultOf(i).status
                            = IF AssertionOf(i).passed THEN "Passed" ELSE "Failed"

C15_Witness ==
    /\ Returned /\ ret.ok
    /\ test_cases[1].test_type = "ElementAttribute"
    /\ test_cases[1].expected_value = Some(<<"a", "=", "=">>)
    /\ answers.found
    /\ answers.attr = Ok(Some(<<"=">>))
    /\ Len(ret.v.test_results) = 1
    /\ ret.v.test_results[1].status = "Passed"
    /\ ret.v.test_results[1].assertions[1].actual = <<"a", "=", "=">>

\* C16: a Navigation case whose current URL was read records one
\* AssertionResult that passed exactly when the URL the session answered is
\* the expected value, character for character.
C16_NavigationExact ==
    \A i \in 1..Len(test_cases) :
        LET tc == test_cases[i] IN
        (HasResult(i) /\ tc.test_type = "Navigation"
            /\ CaseCall(i, "current_url", TRUE))
            => /\ Len(ResultOf(i).assertions) = 1
               /\ AssertionOf(i).passed <=> (answers.url.v = tc.expected_value.v)
               /\ AssertionOf(i).actual = answers.url.v
               /\ ResultOf(i).status
                     = IF AssertionOf(i).passed THEN "Passed" ELSE "Failed"

C16_Witness ==
    /\ Returned /\ ret.ok
    /\ test_cases[1].test_type = "Navigation"
    /\ test_cases[1].expected_value = Some(<<"a">>)
    /\ answers.url = Ok(<<"a", " ">>)
    /\ Len(ret.v.test_results) = 1
    /\ ret.v.test_results[1].status = "Failed"

\* C17: a FormSubmission or VisualRegression case whose actions all
\* succeeded ends Failed, without an error message, with exactly one
\* AssertionResult whose passed is FALSE, and the evaluator asks the page
\* nothing, whatever the case's target and expected value; a returned run
\* whose suite holds such a case has status Failed and no passed test.
C17_PlaceholdersAlwaysFail ==
    /\ \A i \in 1..Len(test_cases) :
          (HasResult(i) /\ test_cases[i].test_type \in PlaceholderKinds
              /\ EvaluatorInvoked(i))
              => /\ ResultOf(i).status = "Failed"
                 /\ ResultOf(i).error_message = None
                 /\ Len(ResultOf(i).assertions) = 1
                 /\ ~AssertionOf(i).passed
                 /\ AssertionOf(i).assertion_type = test_cases[i].test_type
                 /\ \A k \in CallsOfCase(i) :
                       trace[k].action = 0
                           => trace[k].call.op = "execute_test_assertion"
    /\ (Returned /\ ret.ok
           /\ \E i \in 1..Len(test_cases) :
                 test_cases[i].test_type \in PlaceholderKinds)
          => /\ ret.v.status = "Failed"
             /\ ret.v.failed_tests >= 1

C17_Witness ==
    /\ Returned /\ ret.ok
    /\ test_cases[1].test_type = "FormSubmission"
    /\ test_cases[1].target_element.some
    /\ test_cases[1].expected_value = Some(<<"a", "=", " ">>)
    /\ Len(test_cases[1].actions) = 1
    /\ CaseCall(1, "execute_action", TRUE)
    /\ EvaluatorInvoked(1)
    /\ Len(ret.v.test_results) = 1
    /\ ret.v.test_results[1].status = "Failed"
    /\ ret.v.status = "Failed"

\* compare_screenshots returned a VisualComparison.
ComparisonReturned == cpc = "done" /\ cret.ok

\* The comparison has been computed (and the invocation has not failed
\* since).
ComparisonComputed == cpc \in {"compared", "saved", "stored"} \/ ComparisonReturned

\* C18: in every VisualComparison returned, threshold is the requested one,
\* difference_percentage is the f64 that the division of different_pixels
\* by total_pixels followed by the product by 100.0 gives, each rounded to
\* nearest, and passed is TRUE exactly when that f64 is at most the
\* threshold, equality included: when it is below the threshold, or is the
\* threshold.
C18_PassedIffWithinThreshold ==
    ComparisonReturned
        => /\ cret.v.threshold = request.threshold
           /\ cret.v.total_pixels > 0
           /\ cret.v.difference_percentage
                 = F64Times(F64Ratio(cret.v.different_pixels, cret.v.total_pixels), 100)
           /\ cret.v.passed
                 <=> \/ F64Less(cret.v.difference_percentage, request.threshold)
                     \/ cret.v.difference_percentage = request.threshold

\* One different pixel of four is 25 percent, which the f64 arithmetic gives
\* exactly: at the threshold 25 the comparison passes.
C18_Witness ==
    /\ ComparisonReturned
    /\ cret.v.passed
    /\ cret.v.different_pixels = 1
    /\ cret.v.total_pixels = 4
    /\ cret.v.difference_percentage = F64Ratio(25, 1)
    /\ request.threshold = F64Ratio(25, 1)

\* The region two images share: as wide and as high as the smaller of each.
SharedWidth == Min(screenshots[1].width, screenshots[2].width)
SharedHeight == Min(screenshots[1].height, screenshots[2].height)
SharedCoords == Coords(SharedWidth, SharedHeight)

\* The two stored pixels at a coordinate differ in some channel by more
\* than the pixel threshold.
BaseDifferent(c) ==
    \E i \in 1..3 :
        \/ screenshots[1].px[c][i] - screenshots[2].px[c][i] > comparator.pixel_threshold
        \/ screenshots[2].px[c][i] - screenshots[1].px[c][i] > comparator.pixel_threshold

\* The coordinates of the shared region next to c.
SharedNeighbours(c) ==
    { n \in SharedCoords \ {c} :
          /\ n[1] - c[1] \in -1..1
          /\ n[2] - c[2] \in -1..1 }

\* The coordinates of the shared region counted as different.
CountedDifferent ==
    { c \in SharedCoords :
          /\ BaseDifferent(c)
          /\ comparator.ignore_antialiasing
                => 10 * Cardinality({ n \in SharedNeighbours(c) : ~BaseDifferent(n) })
                      <= 7 * Cardinality(SharedNeighbours(c)) }

\* C19: once the comparison is computed, total_pixels is the product of the
\* smaller width and the smaller height of the two stored images, the mask
\* has those dimensions, and different_pixels counts coordinates of that
\* top-left region only, read from the two stored images at the same
\* coordinate; the VisualComparison returned reports the same numbers.
C19_TotalIsSharedRegion ==
    /\ ComparisonComputed
          => /\ work.total_pixels = SharedWidth * SharedHeight
             /\ work.comparison_result.diff_mask.width = SharedWidth
             /\ work.comparison_result.diff_mask.height = SharedHeight
             /\ DOMAIN work.comparison_result.diff_mask.px = SharedCoords
             /\ work.comparison_result.different_pixels = Cardinality(CountedDifferent)
             /\ \A c \in SharedCoords :
                   (work.comparison_result.diff_mask.px[c] = Red)
                       <=> c \in CountedDifferent
    /\ ComparisonReturned
          => /\ cret.v.total_pixels = SharedWidth * SharedHeight
             /\ cret.v.different_pixels = Cardinality(CountedDifferent)

C19_Witness ==
    /\ ComparisonReturned
    /\ screenshots[1].width = 2 /\ screenshots[1].height = 2
    /\ screenshots[2].width = 2 /\ screenshots[2].height = 1
    /\ screenshots[2].px[<<0, 0>>] = White
    /\ screenshots[2].px[<<1, 0>>] = Black
    /\ cret.v.total_pixels = 2
    /\ cret.v.different_pixels = 1

\* C20: when the two stored images are identical, the comparison computes
\* different_pixels = 0 and a difference_percentage of 0, passes for every
\* threshold that is not negative, writes no file, and the VisualComparison
\* returned has no diff_image_path.
C20_IdenticalImages ==
    screenshots[1] = screenshots[2]
        => /\ files = <<>>
           /\ ComparisonComputed
                 => /\ work.comparison_result.different_pixels = 0
                    /\ work.difference_percentage = F64Zero
                    /\ request.threshold.sign >= 0 => work.passed
                    /\ ~work.diff_image_path.some
           /\ ComparisonReturned
                 => /\ cret.v.different_pixels = 0
                    /\ cret.v.difference_percentage = F64Zero
                    /\ request.threshold.sign >= 0 => cret.v.passed
                    /\ ~cret.v.diff_image_path.some
           /\ (cpc = "done" /\ ~cret.ok) => cret.v[1] \in LoadFailures

C20_Witness ==
    /\ ComparisonReturned
    /\ screenshots[1] = screenshots[2]
    /\ screenshots[1].width = 2 /\ screenshots[1].height = 2
    /\ screenshots[1].px[<<0, 0>>] = White
    /\ screenshots[1].px[<<1, 1>>] = Black
    /\ request.threshold = F64Zero
    /\ cret.v.passed
    /\ cret.v.different_pixels = 0
    /\ files = <<>>

\* The mask of the comparison computed, and the coordinates it marks.
Mask == work.comparison_result.diff_mask.px

Marked == { c \in SharedCoords : Mask[c] = Red }

\* c has all of its eight neighbours inside the shared region.
Interior(c) == Cardinality(SharedNeighbours(c)) = 8

\* The three-by-three block of centre c, and the sixteen coordinates around
\* that block.
BlockAround(c) == SharedNeighbours(c) \cup {c}

RingAround(c) ==
    { n \in SharedCoords \ BlockAround(c) :
          /\ n[1] - c[1] \in -2..2
          /\ n[2] - c[2] \in -2..2 }

\* A pixel that differs while its eight neighbours all match.
IsolatedDifference(c) ==
    /\ Interior(c)
    /\ BaseDifferent(c)
    /\ \A n \in SharedNeighbours(c) : ~BaseDifferent(n)

\* A three-by-three block of differing pixels whose sixteen surrounding
\* pixels all match.
DifferingBlock(c) ==
    /\ Interior(c)
    /\ Cardinality(RingAround(c)) = 16
    /\ \A b \in BlockAround(c) : BaseDifferent(b)
    /\ \A n \in RingAround(c) : ~BaseDifferent(n)

\* C21: with ignore_antialiasing on, once the comparison is computed,
\* different_pixels is the number of marked coordinates; a differing pixel
\* whose eight neighbours all match is not among them; all nine pixels of a
\* three-by-three block of differing pixels surrounded by matching pixels
\* are among them.
C21_IsolatedExcludedBlockCounted ==
    (ComparisonComputed /\ comparator.ignore_antialiasing)
        => /\ work.comparison_result.different_pixels = Cardinality(Marked)
           /\ \A c \in SharedCoords :
                 /\ IsolatedDifference(c) => c \notin Marked
                 /\ DifferingBlock(c)
                       => /\ BlockAround(c) \subseteq Marked
                          /\ Cardinality(BlockAround(c) \cap Marked) = 9

C21_Witness ==
    /\ ComparisonReturned
    /\ comparator.ignore_antialiasing
    /\ SharedWidth = 5 /\ SharedHeight = 5
    /\ DifferingBlock(<<2, 2>>)
    /\ cret.v.different_pixels = 9
    /\ cret.v.total_pixels = 25

\* C22: a VisualComparison returned has a diff_image_path exactly when its
\* different_pixels is above zero; the path is the URL, in the bucket of the
\* storage, of a file uploaded by this comparison after it was written
\* locally; and when the comparison computed zero different pixels no file
\* has been written.
C22_DiffPathIffDifferent ==
    /\ ComparisonReturned
          => /\ cret.v.diff_image_path.some <=> cret.v.different_pixels > 0
             /\ cret.v.diff_image_path.some
                   => \E k \in 1..Len(files) :
                         /\ files[k].store = "s3"
                         /\ cret.v.diff_image_path.v
                               = DiffImageUrl(storage.bucket_name, files[k].path)
                         /\ cret.v.diff_image_path.v.bucket = DefaultBucket
                         /\ \E j \in 1..(k - 1) :
                               /\ files[j].store = "local"
                               /\ files[j].path = files[k].path
                               /\ files[j].data = files[k].data
    /\ (ComparisonComputed /\ work.comparison_result.different_pixels = 0)
          => files = <<>>

C22_Witness ==
    /\ ComparisonReturned
    /\ cret.v.different_pixels = 1
    /\ cret.v.total_pixels = 4
    /\ cret.v.passed
    /\ cret.v.diff_image_path.some
    /\ Len(files) = 2

\* Some step of the retrieval or the decoding of a screenshot has failed.
LoadFailed == \E k \in 1..Len(reads) : ~reads[k].ok

\* The bucket holds a screenshot of that id.
IsStored(screenshot_id) ==
    \E k \in 1..Len(storage.keys) :
        Contains(storage.keys[k], <<"/">> \o screenshot_id \o <<".png">>)

\* The bytes of one of the two screenshots requested cannot be retrieved:
\* the bucket holds no screenshot of its id.
Unretrievable ==
    ~IsStored(request.baseline_screenshot_id) \/ ~IsStored(request.current_screenshot_id)

\* C23 as claimed: when the bytes of either screenshot cannot be retrieved
\* or decoded (the bucket holds no screenshot of a requested id, or a step
\* of the retrieval or the decoding has failed), compare_screenshots ends
\* with an error: no VisualComparison is returned, none is handed to
\* store_comparison, nothing is computed and no file is written.
C23_LoadFailureIsFatal ==
    (Unretrievable \/ LoadFailed)
        => /\ cpc = "done" => ~cret.ok
           /\ work.total_pixels = 0
           /\ logged = <<>>
           /\ files = <<>>

\* C24: once the pixel comparison was computed, compare_screenshots returns
\* a VisualComparison with the computed passed, difference_percentage,
\* different_pixels and total_pixels, whether or not the difference image
\* could be stored.
C24_StoreFailureTolerated ==
    (cpc = "done" /\ work.total_pixels > 0)
        => /\ cret.ok
           /\ cret.v.passed = work.passed
           /\ cret.v.difference_percentage = work.difference_percentage
           /\ cret.v.different_pixels = work.comparison_result.different_pixels
           /\ cret.v.total_pixels = work.total_pixels

\* Largest number of pixels of an image for which every evaluation order is
\* tried.
MaxOrderLen == 4

\* The loop body of compare_images applied along a sequence of coordinates.
RECURSIVE ComparePixelsAlong(_, _, _, _, _)
ComparePixelsAlong(cmp, img1, img2, order, acc) ==
    IF order = <<>> THEN acc
    ELSE ComparePixelsAlong(cmp, img1, img2, Tail(order),
             ClassifyPixel(cmp, img1, img2, Head(order)[1], Head(order)[2], acc))

RowMajor(w, h) == [n \in 1..(w * h) |-> <<(n - 1) % w, (n - 1) \div w>>]

ColumnMajor(w, h) == [n \in 1..(w * h) |-> <<(n - 1) \div h, (n - 1) % h>>]

Reversed(s) == [n \in 1..Len(s) |-> s[Len(s) + 1 - n]]

AllOrders(w, h) ==
    { s \in [1..(w * h) -> Coords(w, h)] :
          \A i, j \in 1..(w * h) : i # j => s[i] # s[j] }

\* The evaluation orders tried: the four scans, and every permutation of the
\* coordinates of a small image.
Orders(w, h) ==
    {RowMajor(w, h), ColumnMajor(w, h), Reversed(RowMajor(w, h)),
     Reversed(ColumnMajor(w, h))}
        \cup (IF w * h <= MaxOrderLen THEN AllOrders(w, h) ELSE {})

\* C25: once the comparison is computed, classifying the pixels of the two
\* normalized images along any other order of the coordinates gives the
\* same different_pixels, the same mask and the same verdict; and so does
\* classifying the two parts of the coordinates, cut anywhere, independently
\* of one another and adding the counts and joining the masks.
C25_OrderIndependent ==
    ComparisonComputed
        => LET img1 == work.baseline_img
               img2 == work.current_img
               w == img1.width
               h == img1.height
               computed == work.comparison_result
           IN  /\ \A order \in Orders(w, h) :
                     LET r == ComparePixelsAlong(comparator, img1, img2, order, NoPixels)
                     IN  /\ r.different_pixels = computed.different_pixels
                         /\ r.diff_mask = computed.diff_mask.px
                         /\ WithinThreshold(
                                DifferencePercentage(r.different_pixels, w * h),
                                request.threshold) = work.passed
               /\ \A k \in 0..(w * h) :
                     LET a == ComparePixelsAlong(comparator, img1, img2,
                                  SubSeq(RowMajor(w, h), 1, k), NoPixels)
                         b == ComparePixelsAlong(comparator, img1, img2,
                                  SubSeq(RowMajor(w, h), k + 1, w * h), NoPixels)
                     IN  /\ a.different_pixels + b.different_pixels
                               = computed.different_pixels
                         /\ a.diff_mask @@ b.diff_mask = computed.diff_mask.px

C25_Witness ==
    /\ ComparisonReturned
    /\ comparator.ignore_antialiasing
    /\ SharedWidth = 2 /\ SharedHeight = 2
    /\ Cardinality({ c \in SharedCoords : BaseDifferent(c) }) = 2
    /\ cret.v.different_pixels = 2
    /\ Cardinality(Orders(2, 2)) = 24

\* C26: no two files written to the same store, by the same or by different
\* comparisons, have the same path.
C26_DiffsWriteOnce ==
    \A i, j \in 1..Len(files) :
        (i < j /\ files[i].store = files[j].store) => files[i].path # files[j].path

\* Positions in the trace of the calls of action n of case i, and of the
\* invocations of execute_action.
CallsOfAction(i, n) ==
    {k \in 1..Len(trace) : trace[k].case = i /\ trace[k].action = n}

ActionInvocations == {k \in 1..Len(trace) : trace[k].call.op = "execute_action"}

\* The action whose call is at position k of the trace.
ActionAt(k) == test_cases[trace[k].case].actions[trace[k].action]

LastOf(positions) == CHOOSE m \in positions : \A x \in positions : x <= m

\* The action invoked at position k of the trace has not returned yet: it
\* is between two of its calls.
ActionInProgress(k) ==
    /\ pc = "case"
    /\ step > 0
    /\ trace[k].case = idx + 1
    /\ trace[k].action = aidx + 1

\* C27: the calls of every action that succeeded are contiguous and end
\* with a suspension of the action's wait_after_ms when it has one, of the
\* configured wait_after_action_ms otherwise; that is the only suspension of
\* the action, besides the one a Wait action is; the call that follows
\* it, if any, is the invocation of the next action of the case or of its
\* assertion; and while an action is between two of its calls, its calls so
\* far are the last of the trace and its post-action wait is not among them.
C27_OnePostActionWait ==
    \A k \in ActionInvocations :
        /\ ActionInProgress(k)
              => /\ CallsOfAction(trace[k].case, trace[k].action) = k..Len(trace)
                 /\ Len(trace) = k + step
                 /\ Cardinality({ m \in k..Len(trace) : trace[m].call.op = "sleep" })
                        = IF ActionAt(k).action_type = "Wait" THEN 1 ELSE 0
        /\ (trace[k].call.ok /\ ~ActionInProgress(k))
            => LET i == trace[k].case
                   n == trace[k].action
                   action == ActionAt(k)
                   last == LastOf(CallsOfAction(i, n))
               IN  /\ CallsOfAction(i, n) = k..last
                   /\ last > k
                   /\ trace[last].call.op = "sleep"
                   /\ trace[last].call.ok
                   /\ trace[last].call.ms =
                          IF action.wait_after_ms.some THEN action.wait_after_ms.v
                          ELSE config.wait_after_action_ms
                   /\ Cardinality({ m \in k..last : trace[m].call.op = "sleep" })
                          = IF action.action_type = "Wait" THEN 2 ELSE 1
                   /\ last < Len(trace)
                         => /\ trace[last + 1].case = i
                            /\ \/ /\ trace[last + 1].call.op = "execute_action"
                                  /\ trace[last + 1].action = n + 1
                               \/ /\ trace[last + 1].call.op = "execute_test_assertion"
                                  /\ n = Len(test_cases[i].actions)

C27_Witness ==
    /\ pc = "case_return"
    /\ Len(test_cases[1].actions) = 2
    /\ test_cases[1].actions[1].action_type = "Navigate"
    /\ test_cases[1].actions[1].wait_after_ms = Some(250)
    /\ test_cases[1].actions[2].action_type = "Wait"
    /\ config.wait_after_action_ms = DefaultWaitAfterActionMs
    /\ EvaluatorInvoked(1)
    /\ Cardinality({ m \in 1..Len(trace) : trace[m].call.op = "sleep" }) = 3

\* The steps of a Type action, in the order of the code.
TypeSteps == <<"find", "clear", "send_keys">>

\* Positions of the calls of the action invoked at position k that locate,
\* clear, type or navigate.
SessionSteps(k) ==
    { m \in CallsOfAction(trace[k].case, trace[k].action) :
          trace[m].call.op \in {"find", "clear", "send_keys", "goto", "click"} }

\* C28: a Type or Navigate action without value fails, its test case gets
\* the missing-value error (before the failure screenshot is taken and
\* after), and the action issued no lookup, clear, keystrokes, click or
\* navigation; a Type action with a value issues find, clear, send_keys (of
\* the value) in that order right after its invocation, each only when the
\* one before succeeded, issues nothing of the kind after the first that
\* failed, and, once it has returned, succeeded exactly when all three did.
C28_MissingValueAndTypeOrder ==
    \A k \in ActionInvocations :
        LET action == ActionAt(k)
            i == trace[k].case
            steps == Cardinality(SessionSteps(k))
        IN  /\ (action.action_type \in {"Type", "Navigate"} /\ ~action.value.some)
                  => /\ ~trace[k].call.ok
                     /\ SessionSteps(k) = {}
                     /\ HasResult(i) \/ (pc = "failure_shot" /\ i = idx + 1)
                     /\ ResultOf(i).status = "Error"
                     /\ ResultOf(i).error_message
                           = Some(<<"Action failed: ", action.action_type,
                                    "requires a value">>)
            /\ (action.action_type = "Type" /\ action.value.some)
                  => /\ steps \in 1..Len(TypeSteps)
                     /\ SessionSteps(k) = (k + 1)..(k + steps)
                     /\ \A j \in 1..steps :
                           /\ trace[k + j].call.op = TypeSteps[j]
                           /\ j < steps => trace[k + j].call.ok
                     /\ trace[k + 1].call.loc.kind \in {"XPath", "Id", "Css"}
                     /\ steps = Len(TypeSteps)
                           => trace[k + steps].call.arg = action.value.v
                     /\ ~ActionInProgress(k)
                           => (trace[k].call.ok
                                  <=> (steps = Len(TypeSteps) /\ trace[k + steps].call.ok))
                     /\ ActionInProgress(k)
                           => /\ trace[k].call.ok
                              /\ trace[k + steps].call.ok
                              /\ steps = Min(step, Len(TypeSteps))
                     /\ ~trace[k].call.ok => ~trace[k + steps].call.ok

C28_Witness ==
    /\ pc = "case_return"
    /\ test_cases[1].actions[1].action_type = "Type"
    /\ test_cases[1].actions[1].value = Some(Txt_Url)
    /\ Len(test_cases[1].actions) = 2
    /\ CaseCall(1, "find", TRUE)
    /\ CaseCall(1, "clear", FALSE)
    /\ ~CaseCall(1, "send_keys", TRUE)
    /\ ~CaseCall(1, "send_keys", FALSE)
    /\ test_result.status = "Error"

\* The lookup a target string stands for: XPath of the whole string after
\* "//", else the element id without the '#' after '#', else CSS of the
\* whole string.
PrefixLocator(t) ==
    IF Len(t) >= 2 /\ t[1] = "/" /\ t[2] = "/" THEN [kind |-> "XPath", value |-> t]
    ELSE IF Len(t) >= 1 /\ t[1] = "#"
    THEN [kind |-> "Id", value |-> SubSeq(t, 2, Len(t))]
    ELSE [kind |-> "Css", value |-> t]

\* Positions in the trace of the element lookups, and the target string each
\* one resolves: the target of the action, or of the test case for the
\* lookup of the assertion.
Lookups == {k \in 1..Len(trace) : trace[k].call.op = "find"}

TargetAt(k) ==
    IF trace[k].action > 0 THEN ActionAt(k).target
    ELSE test_cases[trace[k].case].target_element.v

\* C29: every element lookup, of an action or of an assertion, uses the
\* locator the prefix of its target string stands for; two lookups of the
\* same target string use the same locator; and an action or an assertion
\* issues one lookup only, also when that lookup finds nothing.
C29_OnePrefixDispatch ==
    /\ \A k \in Lookups : trace[k].call.loc = PrefixLocator(TargetAt(k))
    /\ \A k, m \in Lookups :
          /\ TargetAt(k) = TargetAt(m) => trace[k].call.loc = trace[m].call.loc
          /\ (trace[k].case = trace[m].case /\ trace[k].action = trace[m].action)
                => k = m

C29_Witness ==
    /\ pc = "case_return"
    /\ test_cases[1].target_element = Some(<<"#", "/", "/">>)
    /\ Cardinality(Lookups) = 2
    /\ \A k \in Lookups : trace[k].call.loc = [kind |-> "Id", value |-> <<"/", "/">>]
    /\ \E k \in Lookups : trace[k].action = 1 /\ trace[k].call.ok
    /\ \E k \in Lookups : trace[k].action = 0 /\ ~trace[k].call.ok

\* Positions in the trace of the polls of the readiness signal.
Polls == {k \in 1..Len(trace) : trace[k].call.op = "ready_state"}

\* The navigation to the suite's URL succeeded: the readiness wait began.
ReadinessWaitBegun ==
    \E k \in 1..Len(trace) :
        trace[k].case = 0 /\ trace[k].call.op = "goto" /\ trace[k].call.ok

\* The readiness signal was polled at most timeout_ms / 100 times; during
\* the wait the execution is as it was created; and a run whose wait began
\* returns an execution with one result per test case and the status its
\* failed_tests counter gives.
C30_BoundedAndHarmless ==
    /\ Cardinality(Polls) <= config.timeout_ms \div 100
    /\ attempts <= config.timeout_ms \div 100
    /\ pc \in {"page_load", "page_sleep"} => execution = NewExecution(Len(test_cases))
    /\ (pc = "done" /\ ReadinessWaitBegun)
          => /\ ret.ok
             /\ Len(ret.v.test_results) = Len(test_cases)
             /\ CounterSum(ret.v) = Len(test_cases)
             /\ ret.v.status = IF ret.v.failed_tests > 0 THEN "Failed" ELSE "Completed"

\* A step of the readiness wait is a poll, the sleep that follows a poll
\* that did not find the page ready and counts one more attempt, or the
\* entry of the case loop; it leaves the execution alone.
C30_Step ==
    pc \in {"page_load", "page_sleep"}
        => /\ \/ pc' = "loop" /\ attempts' = attempts
              \/ pc = "page_load" /\ pc' = "page_sleep" /\ attempts' = attempts
              \/ pc = "page_sleep" /\ pc' = "page_load" /\ attempts' = attempts + 1
           /\ execution' = execution
           /\ idx' = idx
           /\ client' = client

\* C30: the page-readiness wait polls at most timeout_ms / 100 times, each
\* of its steps either polls once more or enters the case loop without
\* touching the execution, and whatever the polls answered the run executes
\* every test case and its final status comes from the counters alone.
C30_ReadinessWaitNeverFatal == []C30_BoundedAndHarmless /\ [][C30_Step]_vars

C30_Witness ==
    /\ pc = "done"
    /\ config.timeout_ms = 250
    /\ Cardinality(Polls) = 2
    /\ \A k \in Polls : ~trace[k].call.ok
    /\ Len(test_cases) = 1
    /\ ret.ok
    /\ ret.v.status = "Completed"
    /\ ret.v.passed_tests = 1

\* C31: in every state of a suite run the three counters of the execution
\* add up to the number of results in test_results, and to no more than
\* total_tests; the same holds of the execution the runner returned.
C31_CountersFollowResults ==
    /\ CounterSum(execution) = Len(execution.test_results)
    /\ CounterSum(execution) <= execution.total_tests
    /\ execution.passed_tests >= 0
    /\ execution.failed_tests >= 0
    /\ execution.skipped_tests >= 0
    /\ runner_ret.ok
          => /\ CounterSum(runner_ret.v) = Len(runner_ret.v.test_results)
             /\ CounterSum(runner_ret.v) <= runner_ret.v.total_tests

C31_Witness ==
    /\ pc = "case"
    /\ Len(test_cases) = 2
    /\ idx = 1
    /\ execution.test_results[1].status = "Error"
    /\ execution.failed_tests = 1
    /\ CounterSum(execution) = 1
    /\ execution.total_tests = 2

\* A TestResult that is terminal and well-formed.
WellFormedResult(tr) ==
    /\ tr.completed_at.some
    /\ tr.duration_ms.some
    /\ tr.status \in {"Passed", "Failed", "Error"}
    /\ tr.status \in {"Passed", "Failed"}
          => /\ Len(tr.assertions) = 1
             /\ tr.status = "Passed" <=> tr.assertions[1].passed
    /\ tr.status = "Error" => Len(tr.assertions) = 0
    /\ tr.error_message.some <=> tr.status = "Error"

C32_AppendedWellFormed ==
    \A i \in 1..Len(execution.test_results) :
        WellFormedResult(execution.test_results[i])

\* No step changes a result that is in test_results.
C32_Step ==
    \A i \in 1..Len(execution.test_results) :
        /\ i <= Len(execution'.test_results)
        /\ execution'.test_results[i] = execution.test_results[i]

\* C32: every TestResult in test_results has completed_at and duration_ms
\* set, a status among Passed, Failed and Error, one AssertionResult when
\* Passed or Failed (Passed exactly when it passed) and none when Error, an
\* error_message exactly when Error; and no step of the run changes a
\* result once it is in test_results.
C32_ResultsTerminalAndFrozen == []C32_AppendedWellFormed /\ [][C32_Step]_vars

C32_Witness ==
    /\ pc = "done"
    /\ ret.ok
    /\ Len(ret.v.test_results) = 2
    /\ ret.v.test_results[1].status = "Passed"
    /\ ret.v.test_results[1].assertions[1].passed
    /\ ret.v.test_results[2].status = "Error"
    /\ ret.v.test_results[2].assertions = <<>>
    /\ ret.v.test_results[2].error_message.some

\* The largest absolute difference of a colour channel between the two
\* stored pixels at a coordinate.
ChannelGap(c) ==
    LET gap(i) == IF screenshots[1].px[c][i] >= screenshots[2].px[c][i]
                  THEN screenshots[1].px[c][i] - screenshots[2].px[c][i]
                  ELSE screenshots[2].px[c][i] - screenshots[1].px[c][i]
    IN  IF gap(1) >= gap(2) /\ gap(1) >= gap(3) THEN gap(1)
        ELSE IF gap(2) >= gap(3) THEN gap(2) ELSE gap(3)

\* The coordinates of the shared region whose largest channel difference is
\* strictly more than the pixel threshold.
OverThreshold == { c \in SharedCoords : ChannelGap(c) > comparator.pixel_threshold }

\* C33: once the comparison is computed, a pixel whose largest channel
\* difference is at most the pixel threshold (exactly the threshold
\* included) is never marked different; and with antialiasing tolerance off
\* the marked pixels are exactly those with a channel difference strictly
\* above the threshold, and different_pixels is their number.
C33_StrictlyAboveThreshold ==
    ComparisonComputed
       => /\ \A c \in SharedCoords :
                ChannelGap(c) <= comparator.pixel_threshold => c \notin Marked
          /\ ~comparator.ignore_antialiasing
                => /\ Marked = OverThreshold
                   /\ work.comparison_result.different_pixels
                         = Cardinality(OverThreshold)

C33_Witness ==
    /\ ComparisonReturned
    /\ ~comparator.ignore_antialiasing
    /\ screenshots[1].px[<<0, 0>>] = Black
    /\ screenshots[2].px[<<0, 0>>]
          = <<DefaultPixelThreshold, DefaultPixelThreshold, DefaultPixelThreshold>>
    /\ cret.v.different_pixels = 0
    /\ cret.v.total_pixels = 1

\* The number of rows, or columns, of the 3x3 neighbourhood of position v
\* that lie within 0..size-1.
Span(v, size) ==
    (IF v + 1 <= size - 1 THEN v + 1 ELSE size - 1) - (IF v >= 1 THEN v - 1 ELSE 0) + 1

\* The number of in-bounds neighbours of a coordinate, from its position.
NeighbourCount(c) == Span(c[1], SharedWidth) * Span(c[2], SharedHeight) - 1

\* The neighbours of c that the base test does not find different.
SimilarAround(c) ==
    { n \in SharedCoords :
          /\ n # c
          /\ n[1] - c[1] \in -1..1
          /\ n[2] - c[2] \in -1..1
          /\ ChannelGap(n) <= comparator.pixel_threshold }

\* C34: with antialiasing tolerance on, once the comparison is computed a
\* pixel is marked different exactly when its channel difference is above
\* the threshold and 10*s <= 7*n, s being the number of its in-bounds
\* neighbours that the base test finds similar and n the number of its
\* in-bounds neighbours (8 inside, 5 on an edge, 3 in a corner, 0 in a 1x1
\* image); different_pixels is the number of such pixels and never exceeds
\* the number of pixels above the threshold.
C34_AntialiasingRule ==
    ComparisonComputed /\ comparator.ignore_antialiasing
       => /\ \A c \in SharedCoords :
                c \in Marked
                   <=> /\ c \in OverThreshold
                       /\ 10 * Cardinality(SimilarAround(c)) <= 7 * NeighbourCount(c)
          /\ work.comparison_result.different_pixels = Cardinality(Marked)
          /\ work.comparison_result.different_pixels <= Cardinality(OverThreshold)
          /\ SharedWidth >= 3 /\ SharedHeight >= 3
                => \A c \in SharedCoords :
                      NeighbourCount(c) =
                          IF c[1] \in 1..(SharedWidth - 2) /\ c[2] \in 1..(SharedHeight - 2)
                          THEN 8
                          ELSE IF c[1] \in 1..(SharedWidth - 2) \/ c[2] \in 1..(SharedHeight - 2)
                          THEN 5 ELSE 3

\* A 3x3 image with a 2x2 block in its top left corner: the corner, the
\* edge and the interior pixels of the block are all counted.
C34_Witness ==
    /\ ComparisonReturned
    /\ comparator.ignore_antialiasing
    /\ SharedWidth = 3 /\ SharedHeight = 3
    /\ OverThreshold = {<<0, 0>>, <<1, 0>>, <<0, 1>>, <<1, 1>>}
    /\ Cardinality(SimilarAround(<<1, 1>>)) = 5
    /\ Cardinality(SimilarAround(<<0, 0>>)) = 0
    /\ cret.v.different_pixels = 4

\* Positions in the trace of the captures case i made because it failed:
\* its screenshot calls other than the one a Screenshot action starts with.
FailureShots(i) ==
    { k \in CallsOfCase(i) :
          /\ trace[k].call.op = "screenshot"
          /\ ~(/\ trace[k].action > 0
               /\ trace[k - 1].call.op = "execute_action"
               /\ trace[k - 1].case = i
               /\ ActionAt(k - 1).action_type = "Screenshot") }

\* The results recorded so far that count as failed.
RecordedFailures ==
    { j \in 1..Len(execution.test_results) :
          execution.test_results[j].status \in {"Failed", "Error"} }

\* The log line of a capture that succeeded.
CaptureLogged(tr) ==
    \E n \in 1..Len(tr.logs) : tr.logs[n] = <<"Screenshot captured on failure">>

\* C35: for every case that has its result, a failure capture was attempted
\* exactly when the case ended with status Error and screenshot_on_failure
\* is on, and then once; screenshot_path is set only when the screenshot
\* call of that capture succeeded, never when it failed, and exactly when
\* the result logs the capture; a case that ended Passed or Failed made no
\* failure capture and has no path; and whether its capture succeeded or
\* not, such a case has status Error, its error message, completed_at and
\* duration_ms, and is counted in failed_tests like any other failed case.
\* The capture is a step of its own after the failed call: when it is
\* about to be taken the option is on, the result is already Error with its
\* message, and has no capture, path or completed_at yet.
C35_FailureScreenshot ==
    /\ pc = "failure_shot"
          => /\ config.screenshot_on_failure
             /\ test_result.status = "Error"
             /\ test_result.error_message.some
             /\ ~test_result.completed_at.some
             /\ ~test_result.screenshot_path.some
             /\ FailureShots(idx + 1) = {}
    /\ \A i \in 1..Len(test_cases) :
          HasResult(i)
             => LET shots == FailureShots(i)
                    tr == ResultOf(i)
                IN  /\ shots # {}
                          <=> (tr.status = "Error" /\ config.screenshot_on_failure)
                    /\ Cardinality(shots) <= 1
                    /\ tr.screenshot_path.some
                          => \E k \in shots : trace[k].call.ok
                    /\ tr.screenshot_path.some <=> CaptureLogged(tr)
                    /\ tr.status \in {"Passed", "Failed"}
                          => /\ shots = {}
                             /\ ~tr.screenshot_path.some
                    /\ shots # {}
                          => /\ tr.status = "Error"
                             /\ tr.error_message.some
                             /\ tr.completed_at.some
                             /\ tr.duration_ms.some
    /\ execution.failed_tests = Cardinality(RecordedFailures)

\* A returned run with the option on: a case whose screenshot call was
\* answered but whose capture failed ended Error without a path, a case
\* whose assertion failed made no capture.
C35_Witness ==
    /\ Returned
    /\ config.screenshot_on_failure
    /\ Len(test_cases) = 2
    /\ ResultOf(1).status = "Error"
    /\ \E k \in FailureShots(1) : trace[k].call.ok
    /\ ~ResultOf(1).screenshot_path.some
    /\ ResultOf(2).status = "Failed"
    /\ FailureShots(2) = {}
    /\ execution.failed_tests = 2

\* C37: completed_at of the execution record is unset until the run
\* returns; in the record returned it is set exactly when the initial
\* navigation succeeded, and then the record holds one result per supplied
\* case; after a failure of the session acquisition or of the initial
\* navigation the record returned has status Failed, completed_at unset and
\* total_tests equal to the number of supplied cases.
C37_CompletedIffLoopFinished ==
    /\ pc \notin {"returned", "done"} => ~execution.completed_at.some
    /\ (pc \in {"returned", "done"} /\ runner_ret.ok)
          => /\ runner_ret.v.completed_at.some <=> LoopEntered
             /\ runner_ret.v.completed_at.some
                   => /\ Len(runner_ret.v.test_results) = Len(test_cases)
                      /\ runner_ret.v.status \in {"Completed", "Failed"}
             /\ (AcquisitionFailed \/ NavigationFailedHere)
                   => /\ runner_ret.v.status = "Failed"
                      /\ ~runner_ret.v.completed_at.some
                      /\ runner_ret.v.total_tests = Len(test_cases)
             /\ Returned => ret.ok /\ ret.v = runner_ret.v

C37_Witness ==
    /\ Returned
    /\ NavigationFailedHere
    /\ Len(test_cases) = 2
    /\ ret.v.status = "Failed"
    /\ ret.v.total_tests = 2
    /\ ret.v.completed_at = None

\* The calls run r issued for its case i, on the session it owns.
OwnCaseCalls(r, i) ==
    { c \in UNION { { sessions[s].calls[k] : k \in 1..Len(sessions[s].calls) } :
                        s \in { x \in 1..Len(sessions) : sessions[x].owner = r } } :
          c.case = i }

\* The status the answers to run r's own calls give its case i: Error when
\* a call of its action failed, else Passed or Failed as the lookup of its
\* assertion found the element or not.
OwnOutcome(r, i, status) ==
    LET failed == \E c \in OwnCaseCalls(r, i) :
                      c.action > 0 /\ c.op # "screenshot" /\ c.answer = "error"
        lookups == { c \in OwnCaseCalls(r, i) : c.action = 0 /\ c.op = "find" }
    IN  CASE status = "Error" -> failed
          [] status = "Passed" ->
                ~failed /\ \E c \in lookups : c.answer = "ok"
          [] status = "Failed" ->
                ~failed /\ \E c \in lookups : c.answer = "error"
          [] OTHER -> FALSE

\* How many results of run r have one of the given statuses.
OwnCount(r, statuses) ==
    Cardinality({ i \in 1..Len(runs[r].execution.test_results) :
                      runs[r].execution.test_results[i].status \in statuses })

\* C36: under every interleaving of the steps of concurrent runs, every
\* call on a session was issued by the run that opened it, no two runs hold
\* the same session, and the results and counters of each run are those the
\* answers to its own calls give: result i has the status of the run's own
\* case i, and the counters count the run's own results.
C36_RunsOwnTheirSessions ==
    /\ \A s \in 1..Len(sessions) :
          \A k \in 1..Len(sessions[s].calls) :
              sessions[s].calls[k].run = sessions[s].owner
    /\ \A r \in DOMAIN runs :
          /\ runs[r].client # 0
                => /\ runs[r].client \in 1..Len(sessions)
                   /\ sessions[runs[r].client].owner = r
          /\ \A q \in DOMAIN runs :
                (q # r /\ runs[r].client # 0) => runs[q].client # runs[r].client
          /\ Len(runs[r].execution.test_results) <= runs[r].total
          /\ \A i \in 1..Len(runs[r].execution.test_results) :
                OwnOutcome(r, i, runs[r].execution.test_results[i].status)
          /\ runs[r].execution.passed_tests = OwnCount(r, {"Passed"})
          /\ runs[r].execution.failed_tests = OwnCount(r, {"Failed", "Error"})
          /\ runs[r].execution.skipped_tests = 0

\* Two runs in the middle of their case at the same time, the second having
\* connected first; then both returned with different results.
C36_Witness ==
    /\ Len(sessions) = 2
    /\ sessions[1].owner = 2
    /\ sessions[2].owner = 1
    /\ runs[1].pc = "returned" /\ runs[2].pc = "returned"
    /\ sessions[1].state = "closed" /\ sessions[2].state = "closed"
    /\ runs[1].execution.passed_tests = 1
    /\ runs[2].execution.failed_tests = 1
    /\ runs[1].ret.v.status = "Completed"
    /\ runs[2].ret.v.status = "Failed"

\* The last configuration update answered before request j, 0 if none.
LastUpdateBefore(j) ==
    LET ups == { i \in 1..(j - 1) : service.served[i].kind = "update" }
    IN  IF ups = {} THEN 0 ELSE CHOOSE i \in ups : \A k \in ups : k <= i

\* C38 as claimed: every get-config answer and every suite execution that
\* follows a configuration update uses the configuration of the latest
\* update before it.
C38_UpdateTakesEffect ==
    \A j \in 1..Len(service.served) :
        (service.served[j].kind \in {"get", "execute"} /\ LastUpdateBefore(j) > 0)
            => service.served[j].config
                   = service.served[LastUpdateBefore(j)].requested.v

\* The capture connected a session.
CaptureConnected ==
    \E k \in 1..Len(capture.calls) :
        capture.calls[k].op = "connect" /\ capture.calls[k].ok

\* C39 as claimed: when capture_screenshot has returned, a session that was
\* connected has been closed, by one close call of the capture, whether the
\* screenshot returned is the real one or the mock.
C39_SessionClosedBeforeReturn ==
    (capture.pc = "done" /\ CaptureConnected)
        => /\ capture.session = "closed"
           /\ Cardinality({ k \in 1..Len(capture.calls) :
                                capture.calls[k].op = "close" }) = 1

====
